---- MODULE Spec2Model ----
(***************************************************************************)
(* Umbra browser: the threat and ad classification engine and the privacy  *)
(* session state machine.  Two parallel implementations live in the        *)
(* repository and both are modelled:                                       *)
(*   - the component architecture (js/core/umbra.js, js/features/*.js and  *)
(*     the SecurityManager that takes the browser object), and             *)
(*   - the legacy page scripts (scripts/privacy.js, scripts/security.js).  *)
(* Strings are TLA+ strings; the String operations of JavaScript that the  *)
(* code uses (toLowerCase, includes, endsWith, replace, RegExp test, URL   *)
(* parsing) are operators computed character by character.                 *)
(***************************************************************************)
EXTENDS Integers, Sequences, FiniteSets, TLC

(***************************************************************************)
(* Bounds of the model.                                                    *)
(***************************************************************************)
MaxRules == 1        \* addSecurityRule calls per run
MaxNavigations == 2  \* navigate calls per run
MaxFilters == 2      \* custom filters held by the AdBlocker at once
MaxEvents == 4       \* log recordings per run (legacy logs)
MaxDomEvents == 3    \* load events, mutation batches and blocking timers per run
MaxTimers == 2       \* blockAdsInCurrentPage timers pending at once
MaxClock == 5        \* quarters of an hour that pass per run
MaxDestroys == 2     \* destroy() calls per manager and run
MaxStoreOps == 5     \* StorageManager.store and retrieve calls per run
StoreQuota == 4      \* space localStorage grants, in units of a small entry
MaxListeners == 3    \* callbacks registered for one event at once
MaxCallStack == 9     \* frames the call stack of the engine holds
MaxVariedEntries == 1 \* entries from the start of the history that differ from page to page
MaxTabIds == 22       \* tab ids the TabManager hands out per run
MaxScanEvents == 7    \* security events the scans of the legacy page raise per run

(***************************************************************************)
(* String primitives (String.prototype of JavaScript).                     *)
(***************************************************************************)
CharAt(s, i) == IF i >= 1 /\ i <= Len(s) THEN SubSeq(s, i, i) ELSE ""

UpperLetters == "ABCDEFGHIJKLMNOPQRSTUVWXYZ"
LowerLetters == "abcdefghijklmnopqrstuvwxyz"
Digits == {"0", "1", "2", "3", "4", "5", "6", "7", "8", "9"}
HexDigits == Digits \cup {"a", "b", "c", "d", "e", "f", "A", "B", "C", "D", "E", "F"}

IsDigit(c) == c \in Digits
IsLower(c) == \E i \in 1..26 : SubSeq(LowerLetters, i, i) = c
IsUpper(c) == \E i \in 1..26 : SubSeq(UpperLetters, i, i) = c
IsAlnum(c) == IsDigit(c) \/ IsLower(c) \/ IsUpper(c)

LowerChar(c) ==
    IF IsUpper(c)
    THEN LET i == CHOOSE k \in 1..26 : SubSeq(UpperLetters, k, k) = c
         IN SubSeq(LowerLetters, i, i)
    ELSE c

RECURSIVE toLowerCase(_)
toLowerCase(s) ==
    IF Len(s) = 0 THEN ""
    ELSE LowerChar(SubSeq(s, 1, 1)) \o toLowerCase(SubSeq(s, 2, Len(s)))

\* s.startsWith(p) tested at the 1-based position i
MatchAt(s, p, i) == i >= 1 /\ i + Len(p) - 1 <= Len(s) /\ SubSeq(s, i, i + Len(p) - 1) = p
startsWith(s, p) == MatchAt(s, p, 1)
endsWith(s, p) == MatchAt(s, p, Len(s) - Len(p) + 1)
includes(s, p) == \E i \in 1..(Len(s) - Len(p) + 1) : MatchAt(s, p, i)

\* 1-based position of the first occurrence of p in s at or after from, 0 if none
IndexOfFrom(s, p, from) ==
    LET hits == {i \in from..(Len(s) - Len(p) + 1) : MatchAt(s, p, i)}
    IN IF hits = {} THEN 0 ELSE CHOOSE i \in hits : \A j \in hits : i <= j
indexOf(s, p) == IndexOfFrom(s, p, 1)

\* s.replace(p, r) with a string pattern: the first occurrence only
replaceFirst(s, p, r) ==
    LET i == indexOf(s, p)
    IN IF i = 0 THEN s
       ELSE SubSeq(s, 1, i - 1) \o r \o SubSeq(s, i + Len(p), Len(s))

\* s.replace(/c/g, r) for a one-character pattern: every occurrence
RECURSIVE replaceAll(_, _, _)
replaceAll(s, c, r) ==
    IF Len(s) = 0 THEN ""
    ELSE (IF SubSeq(s, 1, 1) = c THEN r ELSE SubSeq(s, 1, 1))
         \o replaceAll(SubSeq(s, 2, Len(s)), c, r)

\* s.split(c).length for a one-character separator
splitCount(s, c) == Cardinality({i \in 1..Len(s) : SubSeq(s, i, i) = c}) + 1

\* every character of s[i..j] satisfies the class
AllDigits(s, i, j) == j <= Len(s) /\ \A k \in i..j : IsDigit(CharAt(s, k))
AllAlnum(s, i, j) == j <= Len(s) /\ \A k \in i..j : IsAlnum(CharAt(s, k))

\* 1-based position of the first character of s that is in the set cs, 0 if none
FirstOf(s, cs) ==
    LET hits == {i \in 1..Len(s) : SubSeq(s, i, i) \in cs}
    IN IF hits = {} THEN 0 ELSE CHOOSE i \in hits : \A j \in hits : i <= j

(***************************************************************************)
(* new URL(url): the parts of the WHATWG parser the classifiers read, for  *)
(* http and https inputs.  A string without such a scheme has no base to   *)
(* resolve against and fails to parse; so does an empty host or a host     *)
(* holding a forbidden code point.                                         *)
(***************************************************************************)
ForbiddenHostChars == {" ", "<", ">", "%", "|", "^", "[", "]", "\\"}

SchemeOf(url) ==
    IF startsWith(toLowerCase(url), "https://") THEN "https"
    ELSE IF startsWith(toLowerCase(url), "http://") THEN "http"
    ELSE ""

AfterScheme(url) == SubSeq(url, Len(SchemeOf(url)) + 4, Len(url))

AuthorityOf(url) ==
    LET rest == AfterScheme(url)
        e == FirstOf(rest, {"/", "?", "#"})
    IN IF e = 0 THEN rest ELSE SubSeq(rest, 1, e - 1)

TailOf(url) ==
    LET rest == AfterScheme(url)
        e == FirstOf(rest, {"/", "?", "#"})
    IN IF e = 0 THEN "" ELSE SubSeq(rest, e, Len(rest))

\* the host name: the authority without its port, in lower case
HostOf(url) ==
    LET auth == AuthorityOf(url)
        c == indexOf(auth, ":")
    IN toLowerCase(IF c = 0 THEN auth ELSE SubSeq(auth, 1, c - 1))

PortOf(url) ==
    LET auth == AuthorityOf(url)
        c == indexOf(auth, ":")
    IN IF c = 0 THEN "" ELSE SubSeq(auth, c, Len(auth))

UrlParses(url) ==
    /\ SchemeOf(url) # ""
    /\ Len(HostOf(url)) > 0
    /\ \A i \in 1..Len(HostOf(url)) : CharAt(HostOf(url), i) \notin ForbiddenHostChars

\* percent-encoding the parser applies to the path and query
EncodeChar(c) ==
    CASE c = " " -> "%20"
      [] c = "<" -> "%3C"
      [] c = ">" -> "%3E"
      [] c = "\"" -> "%22"
      [] OTHER -> c

RECURSIVE EncodePath(_)
EncodePath(s) ==
    IF Len(s) = 0 THEN ""
    ELSE EncodeChar(SubSeq(s, 1, 1)) \o EncodePath(SubSeq(s, 2, Len(s)))

\* urlObj.href
HrefOf(url) ==
    LET t == TailOf(url)
        path == IF startsWith(t, "/") THEN t ELSE "/" \o t
    IN SchemeOf(url) \o "://" \o HostOf(url) \o PortOf(url) \o EncodePath(path)

\* decodeURIComponent: [ok |-> FALSE] stands for the URIError it throws on a
\* malformed escape or on a byte sequence that is not UTF-8
HexPairs == {"3c", "3e", "3a", "20", "22", "2f"}
DecodeHexPair(h) ==
    CASE h = "3c" -> "<"
      [] h = "3e" -> ">"
      [] h = "3a" -> ":"
      [] h = "20" -> " "
      [] h = "22" -> "\""
      [] h = "2f" -> "/"
      [] OTHER -> "?"

RECURSIVE decodeURIComponent(_)
decodeURIComponent(s) ==
    IF Len(s) = 0 THEN [ok |-> TRUE, str |-> ""]
    ELSE IF SubSeq(s, 1, 1) # "%"
    THEN LET r == decodeURIComponent(SubSeq(s, 2, Len(s)))
         IN [ok |-> r.ok, str |-> SubSeq(s, 1, 1) \o r.str]
    ELSE IF Len(s) < 3 \/ CharAt(s, 2) \notin HexDigits \/ CharAt(s, 3) \notin HexDigits
    THEN [ok |-> FALSE, str |-> ""]
    ELSE IF CharAt(s, 2) \notin {"0", "1", "2", "3", "4", "5", "6", "7"}
    THEN [ok |-> FALSE, str |-> ""]
    ELSE LET r == decodeURIComponent(SubSeq(s, 4, Len(s)))
         IN [ok |-> r.ok, str |-> DecodeHexPair(toLowerCase(SubSeq(s, 2, 3))) \o r.str]

(***************************************************************************)
(* SecurityManager (component architecture): the threat database, the      *)
(* regular-expression rules and the heuristics of checkUrl.                *)
(***************************************************************************)
NoThreat == [type |-> "none", by |-> ""]           \* checkUrl's null
InvalidUrl == [type |-> "invalid", by |-> "catch"] \* the verdict of the catch block

\* loadSecurityDatabase: the entries with a domain
BuiltinThreatDomains ==
    {"secure-paypal-verification.com", "amazon-security-alert.net",
     "gmail-security-check.org", "free-software-download.exe", "virus-scanner-pro.com"}

BuiltinThreatType(d) ==
    IF d \in {"free-software-download.exe", "virus-scanner-pro.com"}
    THEN "malware" ELSE "phishing"

InitialThreatDatabase ==
    [d \in BuiltinThreatDomains |-> [type |-> BuiltinThreatType(d), by |-> d]]

\* A rule: the source of its RegExp, the RegExp's global flag and lastIndex
\* (the state RegExp.prototype.test keeps on the object), and its type.
Rule(src, type) == [src |-> src, type |-> type, global |-> FALSE, lastIndex |-> 0]

\* loadSecurityDatabase pushes the pattern entries, setupSecurityRules the rest
InitialSecurityRules ==
    << Rule("bit\\.ly\\/[a-zA-Z0-9]{6,}", "suspicious"),
       Rule("[0-9]{1,3}\\.[0-9]{1,3}\\.[0-9]{1,3}\\.[0-9]{1,3}", "suspicious"),
       Rule("bitcoin.*giveaway", "scam"),
       Rule("elon.*musk.*crypto", "scam"),
       Rule("\\.(exe|scr|pif|bat|cmd|com|vbs|jar)$", "malware"),
       Rule("[?&](download|exec|cmd|shell)=", "malware"),
       Rule("redirect.*redirect", "suspicious") >>

BuiltinSources == {InitialSecurityRules[i].src : i \in 1..Len(InitialSecurityRules)}

\* p.*q : an occurrence of p with an occurrence of q somewhere after it
ThenLater(s, p, q) ==
    \E i \in 1..Len(s) : MatchAt(s, p, i) /\ IndexOfFrom(s, q, i + Len(p)) # 0

\* RegExp test of the built-in patterns (none has the global flag)
BuiltinTest(src, s) ==
    CASE src = "bit\\.ly\\/[a-zA-Z0-9]{6,}" ->
           \E i \in 1..Len(s) : MatchAt(s, "bit.ly/", i) /\ AllAlnum(s, i + 7, i + 12)
      [] src = "[0-9]{1,3}\\.[0-9]{1,3}\\.[0-9]{1,3}\\.[0-9]{1,3}" ->
           \E i \in 1..Len(s) : \E a \in 1..3 : \E b \in 1..3 :
              /\ IsDigit(CharAt(s, i)) /\ CharAt(s, i + 1) = "."
              /\ AllDigits(s, i + 2, i + 1 + a) /\ CharAt(s, i + 2 + a) = "."
              /\ AllDigits(s, i + 3 + a, i + 2 + a + b) /\ CharAt(s, i + 3 + a + b) = "."
              /\ IsDigit(CharAt(s, i + 4 + a + b))
      [] src = "bitcoin.*giveaway" -> ThenLater(s, "bitcoin", "giveaway")
      [] src = "elon.*musk.*crypto" ->
           \E i \in 1..Len(s) :
              /\ MatchAt(s, "elon", i)
              /\ \E j \in (i + 4)..Len(s) :
                    MatchAt(s, "musk", j) /\ IndexOfFrom(s, "crypto", j + 4) # 0
      [] src = "\\.(exe|scr|pif|bat|cmd|com|vbs|jar)$" ->
           \E e \in {"exe", "scr", "pif", "bat", "cmd", "com", "vbs", "jar"} :
              endsWith(s, "." \o e)
      [] src = "[?&](download|exec|cmd|shell)=" ->
           \E i \in 1..Len(s) : \E w \in {"download", "exec", "cmd", "shell"} :
              CharAt(s, i) \in {"?", "&"} /\ MatchAt(s, w \o "=", i + 1)
      [] src = "redirect.*redirect" -> ThenLater(s, "redirect", "redirect")
      [] OTHER -> FALSE

\* rule.pattern.test(s) for a rule whose source is a literal word occurring in
\* s at the 1-based positions occ (ascending): [matched, lastIndex], lastIndex being the value the
\* RegExp object holds afterwards.  A RegExp without the global flag always
\* searches from 0 and leaves lastIndex alone; one with it searches from
\* lastIndex and stores the end of the match, or 0 when there is none.
RegExpTest(rule, occ) ==
    LET start == IF rule.global THEN rule.lastIndex ELSE 0
        later == SelectSeq(occ, LAMBDA i : i >= start + 1)
        at == IF later = << >> THEN 0 ELSE later[1]
    IN [matched |-> at # 0,
        lastIndex |-> IF ~rule.global THEN rule.lastIndex
                      ELSE IF at # 0 THEN at - 1 + Len(rule.src) ELSE 0]

LegitimateDomains ==
    << "google.com", "facebook.com", "amazon.com", "paypal.com",
       "microsoft.com", "apple.com", "github.com", "youtube.com" >>

\* the spoofingPatterns array built for one legitimate domain
spoofingPatterns(hostname, legit) ==
    { replaceAll(hostname, "o", "0"),
      replaceAll(hostname, "i", "1"),
      replaceAll(hostname, "l", "1"),
      replaceAll(hostname, "e", "3"),
      replaceFirst(legit, ".", "-") \o ".com",
      replaceFirst(legit, ".com", ".net"),
      replaceFirst(legit, ".com", ".org") }

\* checkDomainSpoofing: the first legitimate domain the loop reports, "" for null
checkDomainSpoofing(hostname) ==
    LET hits == {k \in 1..Len(LegitimateDomains) :
                    /\ hostname \in spoofingPatterns(hostname, LegitimateDomains[k])
                    /\ hostname # LegitimateDomains[k]}
    IN IF hits = {} THEN ""
       ELSE LegitimateDomains[CHOOSE k \in hits : \A j \in hits : k <= j]

SuspiciousTlds == {".tk", ".ml", ".ga", ".cf", ".click", ".download", ".work"}

checkSuspiciousTLD(hostname) == \E tld \in SuspiciousTlds : endsWith(hostname, tld)

MaxUrlLength == 2000
MaxSubdomains == 5

\* /%[0-9a-f]{2}/gi.test(href): the literal makes a new RegExp on every call,
\* so its lastIndex is always 0 here
HasEscape(href) ==
    \E i \in 1..Len(href) :
       CharAt(href, i) = "%" /\ CharAt(href, i + 1) \in HexDigits /\ CharAt(href, i + 2) \in HexDigits

\* checkUrlStructure: "" for null, "throws" when decodeURIComponent throws
checkUrlStructure(href, hostname) ==
    IF Len(href) > MaxUrlLength THEN "long"
    ELSE IF splitCount(hostname, ".") > MaxSubdomains THEN "subdomains"
    ELSE IF includes(href, "%") /\ HasEscape(href)
    THEN LET d == decodeURIComponent(href)
         IN IF ~d.ok THEN "throws"
            ELSE IF includes(d.str, "<script>") \/ includes(d.str, "javascript:") THEN "xss"
            ELSE ""
    ELSE ""

(***************************************************************************)
(* AdBlocker (js/features/adblock.js): the default filters and the custom  *)
(* filters of shouldBlockUrl.                                              *)
(***************************************************************************)
\* the words of the default 'domain' and 'url' filters that are plain text
DefaultFilterWords ==
    {".ads.", "googleads", "googlesyndication", "doubleclick", "facebook.com/tr",
     "twitter.com/i/adsct", "amazon-adsystem", "adsystem.amazon", "outbrain.com",
     "taboola.com", "criteo.com", "youtube.com/api/stats/ads", "popup"}

\* some default filter of type 'domain' or 'url' has pattern.test(s) true
DefaultFilterTest(s) ==
    \/ \E w \in DefaultFilterWords : includes(s, w)
    \/ \E i \in 1..Len(s) : \E j \in (i + 4)..Len(s) :      \* /ads\d+\./
          MatchAt(s, "ads", i) /\ AllDigits(s, i + 3, j - 1) /\ CharAt(s, j) = "."
    \/ \E p \in { <<"googlevideo.com", "&ad">>, <<"pop", "ad">> } :
          ThenLater(s, p[1], p[2])

\* new RegExp(pattern, 'i'): whether the pattern text is a well-formed regular
\* expression (no flag u).  A character class runs to its first unescaped "]";
\* ClassEnd is the index of that bracket, 0 when the class never ends.
RECURSIVE ClassEnd(_, _)
ClassEnd(s, i) ==
    IF i > Len(s) THEN 0
    ELSE IF CharAt(s, i) = "\\" THEN (IF i + 1 > Len(s) THEN 0 ELSE ClassEnd(s, i + 2))
    ELSE IF CharAt(s, i) = "]" THEN i
    ELSE ClassEnd(s, i + 1)

\* the index of the "}" closing a braced quantifier {n}, {n,} or {n,m} that
\* opens at i, 0 when the text at i is not such a quantifier
BraceEnd(s, i) ==
    LET ends == {j \in (i + 2)..Len(s) :
                    /\ CharAt(s, j) = "}"
                    /\ \/ AllDigits(s, i + 1, j - 1)
                       \/ \E c \in (i + 2)..(j - 1) :
                             /\ CharAt(s, c) = ","
                             /\ AllDigits(s, i + 1, c - 1)
                             /\ (c = j - 1 \/ AllDigits(s, c + 1, j - 1))}
    IN IF CharAt(s, i) = "{" /\ ends # {}
       THEN CHOOSE j \in ends : \A k \in ends : j <= k
       ELSE 0

\* the pattern from index i on, inside depth open groups; canRepeat says that
\* the text before i ends with something a quantifier may follow
RECURSIVE CompilesFrom(_, _, _, _)
CompilesFrom(s, i, depth, canRepeat) ==
    LET c == CharAt(s, i)
        \* a quantifier may carry one "?" (lazy)
        after(j) == IF CharAt(s, j + 1) = "?" THEN j + 2 ELSE j + 1
    IN IF i > Len(s) THEN depth = 0                       \* else: unterminated group
       ELSE IF c = "\\" THEN /\ i < Len(s)                \* else: \ at end of pattern
                             /\ CompilesFrom(s, i + 2, depth, TRUE)
       ELSE IF c = "[" THEN /\ ClassEnd(s, i + 1) # 0     \* else: unterminated class
                            /\ CompilesFrom(s, ClassEnd(s, i + 1) + 1, depth, TRUE)
       ELSE IF c = "(" THEN
            IF CharAt(s, i + 1) = "?"
            THEN /\ CharAt(s, i + 2) \in {":", "=", "!"}   \* else: invalid group
                 /\ CompilesFrom(s, i + 3, depth + 1, FALSE)
            ELSE CompilesFrom(s, i + 1, depth + 1, FALSE)
       ELSE IF c = ")" THEN /\ depth > 0                  \* else: unmatched ')'
                            /\ CompilesFrom(s, i + 1, depth - 1, TRUE)
       ELSE IF c \in {"|", "^", "$"} THEN CompilesFrom(s, i + 1, depth, FALSE)
       ELSE IF c \in {"*", "+", "?"} THEN /\ canRepeat   \* else: nothing to repeat
                                          /\ CompilesFrom(s, after(i), depth, FALSE)
       ELSE IF BraceEnd(s, i) # 0 THEN /\ canRepeat       \* else: nothing to repeat
                                       /\ CompilesFrom(s, after(BraceEnd(s, i)), depth, FALSE)
       ELSE CompilesFrom(s, i + 1, depth, TRUE)

Compiles(pattern) == CompilesFrom(pattern, 1, 0, FALSE)

\* a custom filter as addCustomFilter builds it: the source of its RegExp
\* (flag i, no flag g), its type, and whether pattern has a test method
CustomFilter(pattern, type) == [src |-> pattern, type |-> type, test |-> TRUE]

\* JSON.stringify of the customFilters array: a RegExp has no enumerable own
\* property and is written as {}, so only the type of a filter is kept
StringifyFilters(filters) == [k \in 1..Len(filters) |-> [type |-> filters[k].type]]

\* JSON.parse of that text: pattern comes back as a plain object
ParseFilters(text) ==
    [k \in 1..Len(text) |-> [src |-> "", type |-> text[k].type, test |-> FALSE]]

\* shouldBlockUrl with the whitelist consulted after the filters instead of first
shouldBlockUrlFiltersFirst(f, whitelist, customFilters) ==
    IF ~f.parses THEN FALSE
    ELSE IF f.adDefault THEN TRUE
    ELSE IF \E k \in 1..Len(customFilters) :
               /\ customFilters[k].type \in {"domain", "url"}
               /\ customFilters[k].test
               /\ f.literal[customFilters[k].src] # << >>
    THEN TRUE
    ELSE IF f.hostname \in whitelist THEN FALSE
    ELSE FALSE

\* AdBlocker.shouldBlockUrl(url), f being the facts of url
shouldBlockUrl(f, whitelist, customFilters) ==
    IF ~f.parses THEN FALSE                       \* new URL throws: catch
    ELSE IF f.hostname \in whitelist THEN FALSE
    ELSE IF f.adDefault THEN TRUE
    ELSE \E k \in 1..Len(customFilters) :
            /\ customFilters[k].type \in {"domain", "url"}
            /\ customFilters[k].test
            /\ f.literal[customFilters[k].src] # << >>

(***************************************************************************)
(* AdBlocker: the document in siteFrame.  An element is "absent" until the *)
(* page holds it, then "attached", and "removed" once detached.            *)
(***************************************************************************)
PageElements ==
    << [tag |-> "script", src |-> "https://ads.doubleclick.net/pixel", cls |-> "", w |-> 0, h |-> 0],
       [tag |-> "img", src |-> "https://online.example/evil", cls |-> "", w |-> 728, h |-> 90],
       [tag |-> "iframe", src |-> "https://ads.doubleclick.net/pixel", cls |-> "", w |-> 300, h |-> 250],
       [tag |-> "div", src |-> "", cls |-> "banner", w |-> 468, h |-> 60] >>

ElementState(where) == [where |-> where, hidden |-> FALSE, marker |-> FALSE]
EmptyDoc == [k \in 1..Len(PageElements) |-> ElementState("absent")]
FreshDoc == [k \in 1..Len(PageElements) |-> ElementState("attached")]

\* AdBlocker.hideElement(element)
hideElement(st) == [st EXCEPT !.hidden = TRUE, !.marker = TRUE]

\* the default filters of type 'css', and whether a selector matches an
\* element that carries the single class e.cls and no id
CssSelectors ==
    {".ad", ".ads", ".advertisement", ".banner", ".sponsor", ".promoted",
     "[id*=\"ad\"]", "[class*=\"ad-\"]"}
MatchesSelector(e, sel) ==
    CASE sel = "[id*=\"ad\"]" -> FALSE
      [] sel = "[class*=\"ad-\"]" -> includes(e.cls, "ad-")
      [] OTHER -> e.cls # "" /\ sel = "." \o e.cls

\* AdBlocker.isAdImage(img)
AdImageSizes == { <<728, 90>>, <<300, 250>>, <<336, 280>>, <<160, 600>>, <<320, 50>> }
isAdImage(w, h) == << w, h >> \in AdImageSizes

\* AdBlocker.isAdElement(element)
AdKeywords == {"ad", "ads", "advertisement", "banner", "sponsor", "promoted"}
isAdElement(e) == \E kw \in AdKeywords : includes(toLowerCase(e.cls), kw)

\* AdBlocker.blockAd(identifier, type), once for every block of a batch; a
\* holds blockedAds and statistics, a block is << element, type, identifier >>
blockAd(a, blocks) ==
    LET n == Cardinality(blocks)
        old == a.stats.blockedByType
        types == DOMAIN old \cup {b[2] : b \in blocks}
    IN [ads |-> a.ads \cup {b[3] : b \in blocks},
        stats |-> [totalBlocked |-> a.stats.totalBlocked + n,
                   sessionBlocked |-> a.stats.sessionBlocked + n,
                   blockedByType |->
                       [t \in types |-> (IF t \in DOMAIN old THEN old[t] ELSE 0)
                                         + Cardinality({b \in blocks : b[2] = t})]]]

\* the blocks of blockAdsInDocument(doc): by CSS selector, then scripts, images
\* and iframes with a src; pf holds the facts of every element's src
DocumentBlocks(doc, pf, wl, cf) ==
    LET here == {k \in 1..Len(PageElements) : doc[k].where = "attached"}
        urlAd(k) == PageElements[k].src # "" /\ shouldBlockUrl(pf[k], wl, cf)
    IN { b \in here \X {"css"} \X CssSelectors : MatchesSelector(PageElements[b[1]], b[3]) }
       \cup { << k, "script", PageElements[k].src >> :
                k \in {j \in here : PageElements[j].tag = "script" /\ urlAd(j)} }
       \cup { << k, "image", PageElements[k].src >> :
                k \in {j \in here : /\ PageElements[j].tag = "img"
                                      /\ PageElements[j].src # ""
                                      /\ \/ urlAd(j)
                                         \/ isAdImage(PageElements[j].w, PageElements[j].h)} }
       \cup { << k, "iframe", PageElements[k].src >> :
                k \in {j \in here : PageElements[j].tag = "iframe" /\ urlAd(j)} }

\* AdBlocker.blockAdsInDocument(doc): a matched script is removed, every
\* other matched element is hidden
blockAdsInDocument(doc, blocks) ==
    [k \in 1..Len(PageElements) |->
        LET hid == IF \E b \in blocks : b[1] = k /\ b[2] # "script"
                   THEN hideElement(doc[k]) ELSE doc[k]
        IN IF << k, "script", PageElements[k].src >> \in blocks
           THEN [hid EXCEPT !.where = "removed"]
           ELSE hid]

\* element.tagName
tagName(e) ==
    CASE e.tag = "script" -> "SCRIPT"
      [] e.tag = "img" -> "IMG"
      [] e.tag = "iframe" -> "IFRAME"
      [] OTHER -> "DIV"

(***************************************************************************)
(* Legacy SecurityManager (scripts/security.js): the classifiers of        *)
(* scanElement.  All adBlockRules are literal texts with the flag i; the   *)
(* keywords that are not ASCII are left out, no element below holds them.  *)
(***************************************************************************)
AdBlockRuleWords ==
    {"googleads", "googlesyndication", "doubleclick", "amazon-adsystem", "adsystem",
     "ads.", "advertisement", "banner", "popup", "sponsor", "facebook.com/tr",
     "connect.facebook.net", "twitter.com/i/adsct", "google-analytics",
     "googletagmanager", "scorecardresearch", "quantserve", "adsense", "adnxs",
     "rubiconproject", "pubmatic", "openx", "criteo"}
matchesAdPattern(text) ==
    LET lowerText == toLowerCase(text)
    IN \E w \in AdBlockRuleWords : includes(lowerText, w)

AdTextKeywords == {"advertisement", "sponsored", "promotion"}
containsAdKeywords(text) ==
    LET lowerText == toLowerCase(text)
    IN \E w \in AdTextKeywords : includes(lowerText, w)

\* hasAdDimensions: Math.abs(rect.width - size.width) < 10 on both axes
CommonAdSizes ==
    { <<728, 90>>, <<300, 250>>, <<336, 280>>, <<320, 50>>, <<468, 60>>, <<120, 600>>,
      <<160, 600>> }
AdSizeTolerance == 10
Abs(x) == IF x < 0 THEN 0 - x ELSE x
hasAdDimensions(w, h) ==
    \E size \in CommonAdSizes :
        Abs(w - size[1]) < AdSizeTolerance /\ Abs(h - size[2]) < AdSizeTolerance

MalwareDomains ==
    {"malware-example.com", "virus-site.net", "dangerous-download.org",
     "phishing-bank.com", "fake-security.net"}
PhishingDomains ==
    {"secure-bank-login.fake", "paypal-security.scam", "microsoft-security.phish",
     "google-security.fake", "amazon-security.scam"}
PhishingKeywords ==
    {"urgent security alert", "account suspended", "verify your account",
     "click here immediately", "limited time offer"}

\* /a\s*b/i.test(s): a, then white space, then b
ThenAfterSpaces(s, a, b) ==
    LET lower == toLowerCase(s)
    IN \E i \in 1..Len(s) :
          /\ MatchAt(lower, a, i)
          /\ \E j \in (i + Len(a))..Len(s) :
                /\ \A n \in (i + Len(a))..(j - 1) : CharAt(s, n) = " "
                /\ MatchAt(lower, b, j)

\* the maliciousPatterns of isMaliciousScript
MaliciousPatternTest(content) ==
    \/ ThenAfterSpaces(content, "eval", "(")
    \/ ThenAfterSpaces(content, "document.write", "(")
    \/ ThenAfterSpaces(content, "window.location", "=")
    \/ LET lower == toLowerCase(content)
       IN \E i \in 1..Len(content) :
             /\ MatchAt(lower, "settimeout", i)
             /\ \E j \in (i + 10)..Len(content) : \E m \in (j + 1)..Len(content) :
                   /\ \A n \in (i + 10)..(j - 1) : CharAt(content, n) = " "
                   /\ CharAt(content, j) = "("
                   /\ \A n \in (j + 1)..(m - 1) : CharAt(content, n) = " "
                   /\ CharAt(content, m) \in {"\"", "'"}
                   /\ IndexOfFrom(lower, "eval", m + 1) # 0
    \/ includes(toLowerCase(content), "fromcharcode")

\* the elements of the legacy page: a script from a malware domain whose src
\* also matches an ad rule, an inline script that calls eval, a banner, a
\* phishing link, and a container holding the inline script and the banner
LegacyElements ==
    << [tag |-> "SCRIPT", src |-> "https://malware-example.com/ads.js", href |-> "",
        cls |-> "", text |-> "", w |-> 0, h |-> 0, kids |-> << >>],
       [tag |-> "SCRIPT", src |-> "", href |-> "", cls |-> "", text |-> "eval (payload)",
        w |-> 0, h |-> 0, kids |-> << >>],
       [tag |-> "DIV", src |-> "", href |-> "", cls |-> "hero", text |-> "",
        w |-> 460, h |-> 66, kids |-> << >>],
       [tag |-> "A", src |-> "", href |-> "https://paypal-security.scam/login", cls |-> "",
        text |-> "Verify your account", w |-> 80, h |-> 20, kids |-> << >>],
       [tag |-> "DIV", src |-> "", href |-> "", cls |-> "content", text |-> "",
        w |-> 900, h |-> 400, kids |-> << 2, 3 >>] >>

LegacyElementState(where) == [where |-> where, hidden |-> FALSE, marker |-> ""]
LegacyFreshDoc == [k \in 1..Len(LegacyElements) |-> LegacyElementState("attached")]

\* element.textContent: the element's own text and that of its children
\* still in the document
RECURSIVE TextOf(_, _)
TextOf(doc, kids) ==
    IF kids = << >> THEN ""
    ELSE (IF doc[Head(kids)].where = "attached" THEN LegacyElements[Head(kids)].text ELSE "")
         \o TextOf(doc, Tail(kids))
textContent(doc, k) == LegacyElements[k].text \o TextOf(doc, LegacyElements[k].kids)

\* element.getBoundingClientRect(): nothing is rendered for an element that
\* is hidden (display: none), or that lies in a hidden element
Rendered(doc, k) ==
    IF \/ doc[k].hidden
       \/ \E c \in 1..Len(LegacyElements) :
             /\ doc[c].hidden
             /\ \E n \in 1..Len(LegacyElements[c].kids) : LegacyElements[c].kids[n] = k
    THEN << 0, 0 >>
    ELSE << LegacyElements[k].w, LegacyElements[k].h >>

\* SecurityManager.isAdElement(element)                       (scripts/security.js)
isAdElementLegacy(doc, k) ==
    \/ \E value \in {LegacyElements[k].src, LegacyElements[k].href, LegacyElements[k].cls} :
          value # "" /\ matchesAdPattern(value)
    \/ containsAdKeywords(textContent(doc, k))
    \/ hasAdDimensions(Rendered(doc, k)[1], Rendered(doc, k)[2])

\* SecurityManager.isMaliciousScript(element)
isMaliciousScript(doc, k) ==
    /\ LegacyElements[k].tag = "SCRIPT"
    /\ \/ /\ LegacyElements[k].src # ""
          /\ \E domain \in MalwareDomains : includes(LegacyElements[k].src, domain)
       \/ MaliciousPatternTest(textContent(doc, k))

\* SecurityManager.isPhishingContent(element)
isPhishingContent(doc, k) ==
    \/ /\ LegacyElements[k].href # ""
       /\ \E domain \in PhishingDomains : includes(LegacyElements[k].href, domain)
    \/ LET lowerText == toLowerCase(textContent(doc, k))
       IN \E w \in PhishingKeywords : includes(lowerText, w)

\* this.adBlockEnabled as the constructor sets it
LegacyAdBlockEnabled == TRUE

\* the first three tests of scanElement while this.adBlockEnabled is enabled:
\* which block it applies to element k
ScanVerdictIf(doc, k, enabled) ==
    IF enabled /\ isAdElementLegacy(doc, k) THEN "ad"
    ELSE IF isMaliciousScript(doc, k) THEN "malware"
    ELSE IF isPhishingContent(doc, k) THEN "phishing"
    ELSE "none"
ScanVerdict(doc, k) == ScanVerdictIf(doc, k, LegacyAdBlockEnabled)

\* blockAd, blockMalware and blockPhishing on element k: the document after,
\* and the security events logged
BlockElement(r, k, verdict) ==
    CASE verdict = "ad" ->
           [doc |-> [r.doc EXCEPT ![k].hidden = TRUE, ![k].marker = "ad"],
            events |-> Append(r.events, "ad")]
      [] verdict = "malware" ->
           [doc |-> [r.doc EXCEPT ![k].where = "removed"],
            events |-> Append(r.events, "malware")]
      [] verdict = "phishing" ->
           [doc |-> [r.doc EXCEPT ![k].marker = "phishing"],
            events |-> Append(r.events, "phishing")]
      [] OTHER -> r

\* element.querySelectorAll('*').forEach(child => this.scanElement(child)):
\* the children are elements without children of their own
RECURSIVE ScanChildren(_, _)
ScanChildren(r, kids) ==
    IF kids = << >> THEN r
    ELSE ScanChildren(BlockElement(r, Head(kids), ScanVerdict(r.doc, Head(kids))), Tail(kids))

\* SecurityManager.scanElement(element) on element k of doc
ScanElementResult(doc, k) ==
    LET r == [doc |-> doc, events |-> << >>]
        verdict == ScanVerdict(doc, k)
    IN IF verdict # "none" THEN BlockElement(r, k, verdict)
       ELSE ScanChildren(r, SelectSeq(LegacyElements[k].kids,
                                      LAMBDA c : doc[c].where = "attached"))

\* The same scan with logSecurityEvent able to throw.  Each block method calls
\* logSecurityEvent after it has changed the element, and nothing between the
\* observer callback and logSecurityEvent catches: when the call throws
\* (fails), the exception leaves blockAd / blockMalware / blockPhishing,
\* scanElement and both forEach loops, and nothing more is scanned.
BlockStep(r, k, verdict, fails) ==
    IF r.thrown \/ verdict = "none" THEN r
    ELSE LET b == BlockElement([doc |-> r.doc, events |-> r.events], k, verdict)
         IN [doc |-> b.doc, events |-> b.events, thrown |-> fails]

RECURSIVE ScanChildrenStep(_, _, _, _)
ScanChildrenStep(r, kids, fails, enabled) ==
    IF kids = << >> \/ r.thrown THEN r
    ELSE ScanChildrenStep(BlockStep(r, Head(kids),
                                    ScanVerdictIf(r.doc, Head(kids), enabled), fails),
                          Tail(kids), fails, enabled)

ScanNode(r, k, fails, enabled) ==
    LET verdict == ScanVerdictIf(r.doc, k, enabled)
    IN IF r.thrown THEN r
       ELSE IF verdict # "none" THEN BlockStep(r, k, verdict, fails)
       ELSE ScanChildrenStep(r, SelectSeq(LegacyElements[k].kids,
                                          LAMBDA c : r.doc[c].where = "attached"),
                             fails, enabled)

\* mutation.addedNodes.forEach(node => this.scanElement(node))
RECURSIVE ScanNodes(_, _, _, _)
ScanNodes(r, nodes, fails, enabled) ==
    IF nodes = << >> THEN r
    ELSE ScanNodes(ScanNode(r, Head(nodes), fails, enabled), Tail(nodes), fails, enabled)

\* document.querySelectorAll('*'): the elements in the document, a parent
\* before its children
DocumentOrder == << 1, 5, 2, 3, 4 >>
InDocument(doc, k) ==
    /\ doc[k].where = "attached"
    /\ \A c \in 1..Len(LegacyElements) :
          (\E n \in 1..Len(LegacyElements[c].kids) : LegacyElements[c].kids[n] = k)
              => doc[c].where = "attached"

\* the forEach of scanCurrentPage over the list taken at its start: an
\* element without data-umbra-scanned is scanned and then given the
\* attribute; an exception leaves the loop before the attribute is set
RECURSIVE ScanPage(_, _, _, _)
ScanPage(p, elements, fails, enabled) ==
    IF elements = << >> \/ p.r.thrown THEN p
    ELSE LET element == Head(elements)
             r == ScanNode(p.r, element, fails, enabled)
         IN IF element \in p.scanned THEN ScanPage(p, Tail(elements), fails, enabled)
            ELSE ScanPage([r |-> r,
                           scanned |-> IF r.thrown THEN p.scanned
                                       ELSE p.scanned \cup {element}],
                          Tail(elements), fails, enabled)

(***************************************************************************)
(* Legacy PrivacyManager (scripts/privacy.js): iframe filtering.           *)
(***************************************************************************)
TrackingDomains ==
    {"google-analytics.com", "googletagmanager.com", "doubleclick.net", "facebook.com/tr",
     "amazon-adsystem.com", "googlesyndication.com", "googleadservices.com",
     "adsystem.amazon.com"}
isTrackingUrl(url) == url # "" /\ \E domain \in TrackingDomains : includes(url, domain)

\* this.httpsUpgrade as the constructor sets it
HttpsUpgrade == TRUE

\* addPrivacySandbox: iframe.sandbox is a DOMTokenList, never falsy
addPrivacySandbox(sandbox) ==
    IF includes(sandbox, "allow-popups")
    THEN "allow-scripts allow-same-origin allow-forms" ELSE sandbox

\* PrivacyManager.filterIframe(iframe): the src and sandbox it leaves and what
\* it did to the iframe, in order
filterIframeResult(originalSrc, sandbox) ==
    IF isTrackingUrl(originalSrc)
    THEN [orig |-> originalSrc, src |-> "about:blank", sandbox |-> sandbox,
          steps |-> << "block" >>]
    ELSE IF ~startsWith(originalSrc, "https://") /\ HttpsUpgrade
    THEN [orig |-> originalSrc, src |-> replaceFirst(originalSrc, "http://", "https://"),
          sandbox |-> addPrivacySandbox(sandbox), steps |-> << "upgrade", "sandbox" >>]
    ELSE [orig |-> originalSrc, src |-> originalSrc,
          sandbox |-> addPrivacySandbox(sandbox), steps |-> << "sandbox" >>]

(***************************************************************************)
(* PrivacyManager (js/features/privacy.js): tracker recognition.           *)
(***************************************************************************)
KnownTrackers ==
    {"doubleclick.net", "googletagmanager.com", "google-analytics.com",
     "facebook.com/tr", "twitter.com/i/adsct", "linkedin.com/px",
     "amazon-adsystem.com", "googlesyndication.com", "scorecardresearch.com",
     "quantserve.com", "outbrain.com", "taboola.com"}

\* isTracker on a URL that parsed to hostname
isTracker(hostname) ==
    \E t \in KnownTrackers : includes(hostname, t) \/ endsWith(hostname, t)

(***************************************************************************)
(* UmbraBrowser.navigate: the normalisation of what the user typed.        *)
(***************************************************************************)
\* encodeURIComponent, for the characters of the inputs
EncodeComponentChar(c) ==
    CASE c = " " -> "%20"
      [] c = "/" -> "%2F"
      [] c = ":" -> "%3A"
      [] c = "?" -> "%3F"
      [] c = "&" -> "%26"
      [] c = "=" -> "%3D"
      [] c = "<" -> "%3C"
      [] c = ">" -> "%3E"
      [] c = "%" -> "%25"
      [] OTHER -> c

RECURSIVE encodeURIComponent(_)
encodeURIComponent(s) ==
    IF Len(s) = 0 THEN ""
    ELSE EncodeComponentChar(SubSeq(s, 1, 1)) \o encodeURIComponent(SubSeq(s, 2, Len(s)))

\* the URL navigate goes on with
normalizeTarget(url) ==
    IF startsWith(url, "http://") \/ startsWith(url, "https://") THEN url
    ELSE IF includes(url, ".") /\ ~includes(url, " ") THEN "https://" \o url
    ELSE "https://www.google.com/search?q=" \o encodeURIComponent(url)

(***************************************************************************)
(* The inputs of the model: navigation targets, domains handed to          *)
(* blockDomain / whitelistDomain, rules handed to addSecurityRule.         *)
(***************************************************************************)
Urls ==
    { "https://secure-paypal-verification.com/login",  \* a database domain
      "https://g00gle.com",                            \* zero for o
      "https://online.example/evil",                   \* matched by no built-in stage
      "https://online.tk/",                            \* a suspicious TLD
      "https://ads.doubleclick.net/pixel",             \* an ad network and tracker
      "not a url" }                                    \* fails to parse

DomainInputs == {"Evil.com", "g00gle.com", "online.tk"}

\* rule objects handed to addSecurityRule: /evil/i and /evil/gi
RuleInputs ==
    { [src |-> "evil", type |-> "custom", global |-> FALSE, lastIndex |-> 0],
      [src |-> "evil", type |-> "custom", global |-> TRUE, lastIndex |-> 0] }

\* what the user types into the address bar
NavInputs == Urls \cup {"online.tk"}

\* arguments of addCustomFilter and of addToWhitelist / removeFromWhitelist
FilterInputs == { <<"evil", "url">>, <<"pixel", "css">>, <<"pixel", "domain">> }
WhitelistInputs == {"Ads.DoubleClick.net", "online.example"}
\* patterns that are not regular expressions: an open group, an open class
BadFilterInputs == { <<"ad(", "url">>, <<"[pixel", "domain">> }

\* the literal words the added rules and filters search for
Words == {r.src : r \in RuleInputs} \cup {p[1] : p \in FilterInputs}

\* "https://" + d + "/anything" for a registered domain d
AnythingUrl(d) == "https://" \o d \o "/anything"

\* the hostnames a spoofer derives from a legitimate domain: one letter
\* replaced by its look-alike digit (in the whole name, or in the name before
\* its TLD), the dot replaced by a hyphen, the TLD swapped
NameOf(legit) == SubSeq(legit, 1, indexOf(legit, ".") - 1)
TldOf(legit) == SubSeq(legit, indexOf(legit, "."), Len(legit))
LookAlikes == { <<"o", "0">>, <<"i", "1">>, <<"l", "1">>, <<"e", "3">> }
SpoofVariants(legit) ==
    ( { replaceAll(legit, p[1], p[2]) : p \in LookAlikes }
      \cup { replaceAll(NameOf(legit), p[1], p[2]) \o TldOf(legit) : p \in LookAlikes }
      \cup { replaceFirst(legit, ".", "-"),
             replaceFirst(legit, ".", "-") \o ".com",
             replaceFirst(legit, ".com", ".net"),
             replaceFirst(legit, ".com", ".org") } ) \ {legit}
AllSpoofVariants == UNION { SpoofVariants(LegitimateDomains[k]) : k \in 1..Len(LegitimateDomains) }

\* further arguments of checkUrl: one per structural heuristic, a malformed
\* escape beside a well-formed one, and strings that new URL rejects
StageUrls ==
    { "https://online.example/%3Cscript%3E",     \* an encoded <script>
      "https://a.b.c.d.online.example/",         \* six host labels
      "https://online.example/%41%",             \* decodeURIComponent throws
      "https://online.tk/evil.exe",              \* a rule and a suspicious TLD
      "https://google.com/",                     \* a legitimate domain itself
      "https://example.org/",                    \* unrelated to every legitimate domain
      "",  "http://", "https://exa mple.com/", "online.tk" }

AllUrls ==
    Urls \cup StageUrls \cup { normalizeTarget(u) : u \in NavInputs }
         \cup { AnythingUrl(d) : d \in DomainInputs \cup BuiltinThreatDomains }
         \cup { "https://" \o h : h \in AllSpoofVariants }

\* What the classifiers compute from the URL alone: new URL(url), hostname,
\* fullUrl, the built-in rules that match, where the literal words occur, the
\* three heuristics of checkUrl, the default ad filters and isTracker.
FactsOf(u) ==
    LET parses == UrlParses(u)
        hostname == HostOf(u)
        fullUrl == toLowerCase(u)
    IN [parses |-> parses,
        hostname |-> hostname,
        fullUrl |-> fullUrl,
        builtin |-> SelectSeq(InitialSecurityRules, LAMBDA r : BuiltinTest(r.src, fullUrl)),
        literal |-> [w \in Words |->
                        SelectSeq([i \in 1..Len(u) |-> i], LAMBDA i : MatchAt(fullUrl, w, i))],
        adDefault |-> \E t \in {fullUrl, hostname} : DefaultFilterTest(t),
        tracker |-> parses /\ isTracker(hostname),
        spoofing |-> IF parses THEN checkDomainSpoofing(hostname) ELSE "",
        tld |-> parses /\ checkSuspiciousTLD(hostname),
        structure |-> IF parses THEN checkUrlStructure(HrefOf(u), hostname) ELSE ""]

\* the facts of every input, evaluated once
RECURSIVE FactsOver(_)
FactsOver(S) ==
    IF S = {} THEN << >>
    ELSE LET u == CHOOSE x \in S : TRUE
         IN (u :> FactsOf(u)) @@ FactsOver(S \ {u})

UrlFacts == FactsOver(AllUrls)

\* rule.pattern.test(fullUrl) for the rule as it stands in securityRules, f
\* being the facts of the URL (no built-in pattern has the global flag)
RuleTest(rule, f) ==
    IF rule.src \in BuiltinSources
    THEN [matched |-> \E k \in 1..Len(f.builtin) : f.builtin[k].src = rule.src,
          lastIndex |-> rule.lastIndex]
    ELSE RegExpTest(rule, f.literal[rule.src])

\* the for-of loop of checkUrl over securityRules: the index of the first rule
\* whose test succeeds (0 if none) and the rules with the lastIndex values the
\* tests that ran left behind (the loop returns at the first hit)
ScanRules(rules, f) ==
    LET t == [i \in 1..Len(rules) |-> RuleTest(rules[i], f)]
        hits == {i \in 1..Len(rules) : t[i].matched}
        hit == IF hits = {} THEN 0 ELSE CHOOSE i \in hits : \A j \in hits : i <= j
    IN [hit |-> hit,
        rules |-> [i \in 1..Len(rules) |->
                      IF hit = 0 \/ i <= hit
                      THEN [rules[i] EXCEPT !.lastIndex = t[i].lastIndex]
                      ELSE rules[i]]]

\* what each stage of checkUrl finds on its own, in the order the code runs
\* them: database, rules, spoofing, TLD, structure (NoThreat: no match)
StageVerdicts(f, db, rules) ==
    LET hit == ScanRules(rules, f).hit
    IN << IF f.hostname \in DOMAIN db THEN db[f.hostname] ELSE NoThreat,
          IF hit # 0 THEN [type |-> rules[hit].type, by |-> rules[hit].src] ELSE NoThreat,
          IF f.spoofing # "" THEN [type |-> "spoofing", by |-> f.spoofing] ELSE NoThreat,
          IF f.tld THEN [type |-> "suspicious", by |-> "tld"] ELSE NoThreat,
          CASE f.structure = "xss" -> [type |-> "xss", by |-> "structure"]
            [] f.structure \in {"long", "subdomains"} -> [type |-> "suspicious", by |-> f.structure]
            [] OTHER -> NoThreat >>

\* checkUrl with the rule loop run before the database lookup
classifyRulesFirst(f, db, rules) ==
    LET sc == ScanRules(rules, f)
    IN IF ~f.parses THEN [verdict |-> InvalidUrl, rules |-> rules]
       ELSE IF sc.hit # 0
       THEN [verdict |-> [type |-> rules[sc.hit].type, by |-> rules[sc.hit].src],
             rules |-> sc.rules]
       ELSE IF f.hostname \in DOMAIN db
       THEN [verdict |-> db[f.hostname], rules |-> sc.rules]
       ELSE IF f.spoofing # ""
       THEN [verdict |-> [type |-> "spoofing", by |-> f.spoofing], rules |-> sc.rules]
       ELSE IF f.tld
       THEN [verdict |-> [type |-> "suspicious", by |-> "tld"], rules |-> sc.rules]
       ELSE IF f.structure = "throws"
       THEN [verdict |-> InvalidUrl, rules |-> sc.rules]
       ELSE IF f.structure = "xss"
       THEN [verdict |-> [type |-> "xss", by |-> "structure"], rules |-> sc.rules]
       ELSE IF f.structure # ""
       THEN [verdict |-> [type |-> "suspicious", by |-> f.structure], rules |-> sc.rules]
       ELSE [verdict |-> NoThreat, rules |-> sc.rules]

\* checkUrl whose catch block answers null
classifyInvalidAsClean(f, db, rules) ==
    LET sc == ScanRules(rules, f)
    IN IF ~f.parses THEN [verdict |-> NoThreat, rules |-> rules]
       ELSE IF f.hostname \in DOMAIN db
       THEN [verdict |-> db[f.hostname], rules |-> rules]
       ELSE IF sc.hit # 0
       THEN [verdict |-> [type |-> rules[sc.hit].type, by |-> rules[sc.hit].src],
             rules |-> sc.rules]
       ELSE IF f.spoofing # ""
       THEN [verdict |-> [type |-> "spoofing", by |-> f.spoofing], rules |-> sc.rules]
       ELSE IF f.tld
       THEN [verdict |-> [type |-> "suspicious", by |-> "tld"], rules |-> sc.rules]
       ELSE IF f.structure = "throws"
       THEN [verdict |-> InvalidUrl, rules |-> sc.rules]
       ELSE IF f.structure = "xss"
       THEN [verdict |-> [type |-> "xss", by |-> "structure"], rules |-> sc.rules]
       ELSE IF f.structure # ""
       THEN [verdict |-> [type |-> "suspicious", by |-> f.structure], rules |-> sc.rules]
       ELSE [verdict |-> NoThreat, rules |-> sc.rules]

\* the body of checkUrl once new URL(url) has been attempted, f being the
\* facts of the URL: the verdict it returns and the rules afterwards
classify(f, db, rules) ==
    LET sc == ScanRules(rules, f)
    IN IF ~f.parses THEN [verdict |-> InvalidUrl, rules |-> rules]
       ELSE IF f.hostname \in DOMAIN db
       THEN [verdict |-> db[f.hostname], rules |-> rules]
       ELSE IF sc.hit # 0
       THEN [verdict |-> [type |-> rules[sc.hit].type, by |-> rules[sc.hit].src],
             rules |-> sc.rules]
       ELSE IF f.spoofing # ""
       THEN [verdict |-> [type |-> "spoofing", by |-> f.spoofing], rules |-> sc.rules]
       ELSE IF f.tld
       THEN [verdict |-> [type |-> "suspicious", by |-> "tld"], rules |-> sc.rules]
       ELSE IF f.structure = "throws"
       THEN [verdict |-> InvalidUrl, rules |-> sc.rules]
       ELSE IF f.structure = "xss"
       THEN [verdict |-> [type |-> "xss", by |-> "structure"], rules |-> sc.rules]
       ELSE IF f.structure # ""
       THEN [verdict |-> [type |-> "suspicious", by |-> f.structure], rules |-> sc.rules]
       ELSE [verdict |-> NoThreat, rules |-> sc.rules]

(***************************************************************************)
(* State.                                                                  *)
(***************************************************************************)
VARIABLES
    \* SecurityManager (component architecture)
    threatDatabase,   \* Map: domain -> threat entry
    securityRules,    \* array of rules, each with its RegExp's lastIndex
    blockedSites,     \* Set of URLs
    scanResults,      \* Map: url -> the threat logged for it
    smEnabled,        \* SecurityManager.isEnabled
    whitelisted,      \* history: domains whitelisted and not blocked since
    lastCheck,        \* history: the last direct checkUrl call and its verdict
    ruleAdds,         \* history: number of addSecurityRule calls
    \* AdBlocker
    adEnabled,        \* AdBlocker.isEnabled
    whitelist,        \* Set of host names
    customFilters,    \* array of custom filters
    blockedAds,       \* Set of identifiers
    statistics,       \* totalBlocked, sessionBlocked, blockedByType
    lastAdCheck,      \* history: the last direct shouldBlockUrl call and its answer
    \* PrivacyManager (component architecture)
    pmIsPrivacyMode,  \* PrivacyManager.isPrivacyMode
    privacySettings,
    blockedTrackers,  \* Set of URLs
    sessionData,      \* Map: tabId -> url
    \* UmbraBrowser (component architecture)
    isPrivacyMode,
    settings,
    frameSrc,         \* siteFrame.src
    frameHidden,      \* siteFrame carries the class hidden
    overlay,          \* the blocked overlay: "none", "shown" or "hidden"
    addressBar,
    loadTimers,       \* pending setTimeout(loadUrl) callbacks, in firing order
    navigations,      \* history: number of navigate calls
    frameRejected,    \* history: the URL in the frame had been rejected
    \* localStorage (component architecture): << >> when the key is absent
    lsSettings,          \* 'umbra-settings'
    lsPrivacySettings,   \* 'umbra-privacy-settings'
    lsCustomFilters,     \* 'umbra-custom-filters'
    lsAdWhitelist,       \* 'umbra-ad-whitelist'
    writtenWhilePrivate, \* history: keys written while isPrivacyMode was true
    \* legacy page scripts
    isPrivateMode,       \* UmbraBrowser.isPrivateMode (scripts/privacy.js)
    privateMode,         \* PrivacyManager.privateMode (scripts/privacy.js)
    lsSecurityLog,       \* localStorage 'umbraSecurityLog', parsed
    lsBlockedRequests,   \* localStorage 'umbraBlockedRequests', parsed
    secHistory,          \* history: the security events that were persisted
    blkHistory,          \* history: the blocked requests that were persisted
    now,                 \* Date.now()
    \* the document in siteFrame and the AdBlocker's timers
    frameDoc,            \* per element of the page: attached, hidden, marker
    adTimers,            \* pending setTimeout(blockAdsInCurrentPage) callbacks
    atDisable,           \* history: what disable() left, while the blocker is disabled
    frameAccessible,     \* siteFrame.contentDocument can be reached (same origin)
    domEvents,           \* history: number of load events and mutation batches
    \* PrivacyManager (component architecture), continued
    pmTrace,             \* history: what the last enablePrivacyMode or toggle did, in order
    clock,               \* Date.now(), in quarters of an hour
    \* legacy page scripts, continued
    legDoc,              \* per element of the legacy page: attached, hidden, marker
    lastIframe,          \* history: the last filterIframe call and what it did
    realSession,         \* the keys held by the real sessionStorage
    legSessionData,      \* the keys of PrivacyManager.sessionData (scripts/privacy.js)
    blockedCounts,       \* SecurityManager.blockedAds, blockedMalware, blockedPhishing
    rect,                \* the rendered size of the element being measured
    dimAnswer,           \* history: what the dimension tests answered for rect
    \* what the classifiers compute from each input URL alone
    urlFacts,            \* UrlFacts, evaluated once
    \* teardown of the three managers
    destroyed,           \* per manager: the number of destroy() calls made on it
    filterListsLoaded,   \* AdBlocker.filterLists holds the default list
    adObserving,         \* contentObserver observes the document in siteFrame
    destroyError,        \* the error the last destroy() call raised, "" if none
    filterError,         \* the error the last addCustomFilter call raised, "" if none
    logFault,            \* what is wrong with 'umbraSecurityLog': "", "read" or "write"
    \* StorageManager (js/ui/notifications.js)
    smStore,             \* localStorage under 'umbra-browser-': key -> entry
    smCache,             \* this.cache: key -> entry
    smUsed,              \* history: key -> time of the last store or retrieve of it
    smClock,             \* Date.now()
    lastStore,           \* the course and the result of the last store() call
    lastRetrieve,        \* the last retrieve() call: its key, its answer, what was stored
    \* the event system of UmbraBrowser (js/core/umbra.js)
    eventListeners,      \* this.eventListeners: event -> callbacks, in push order
    lastEmit,            \* the last emit: its event, the list it ran over, its course
    \* ThemeManager (js/features/adblock.js) and the calls between it and UmbraBrowser
    themeInstalled,      \* umbra.themeManager holds the ThemeManager
    currentTheme,        \* ThemeManager.currentTheme
    themeFrames,         \* the call stack of a setTheme call under way, innermost last
    themeResult,         \* how the last setTheme call ended: "", "returned", "RangeError"
    \* legacy SecurityManager (scripts/security.js): the ad blocker switch
    adBlockEnabled,      \* this.adBlockEnabled
    legScanned,          \* the elements that carry data-umbra-scanned
    lsSecuritySettings,  \* localStorage 'umbraSecuritySettings': the saved adBlockEnabled
    restoredAds,         \* the blocked ads the last switching off made visible again
    \* Browser (browser core): the address bar history
    history,             \* this.history: the URLs visited, oldest first
    historyIndex,        \* this.historyIndex: 0-based position in history, -1 when empty
    canGoBack,           \* this.canGoBack
    canGoForward,        \* this.canGoForward
    currentUrl,          \* this.currentUrl
    \* TabManager (js/ui/notifications.js)
    tabs,                \* this.tabs in insertion order: [id, isActive, url]
    activeTabId,         \* this.activeTabId, 0 for null
    nextTabId,           \* this.nextTabId
    currentTab           \* umbra.currentTab: the id of the tab it holds, 0 for null

secVars == << threatDatabase, securityRules, blockedSites, scanResults, smEnabled,
              whitelisted, lastCheck, ruleAdds >>
adbVars == << adEnabled, whitelist, customFilters, blockedAds, statistics, lastAdCheck >>
privVars == << pmIsPrivacyMode, privacySettings, blockedTrackers, sessionData >>
umbraVars == << isPrivacyMode, settings, frameSrc, frameHidden, overlay, addressBar,
                loadTimers, navigations, frameRejected >>
lsVars == << lsSettings, lsPrivacySettings, lsCustomFilters, lsAdWhitelist,
             writtenWhilePrivate >>
legVars == << isPrivateMode, privateMode, lsSecurityLog, lsBlockedRequests,
              secHistory, blkHistory, now >>

domVars == << frameDoc, frameAccessible, adTimers, atDisable, domEvents >>
pmxVars == << pmTrace, clock >>
legxVars == << legDoc, lastIframe, realSession, legSessionData, blockedCounts, rect,
               dimAnswer >>
tdVars == << destroyed, filterListsLoaded, adObserving, destroyError >>
stoRest == << smCache, smUsed, smClock, lastStore, lastRetrieve >>
stoVars == << smStore, stoRest >>
busVars == << eventListeners, lastEmit >>
thmVars == << themeInstalled, currentTheme, themeFrames, themeResult >>
rescanVars == << adBlockEnabled, legScanned, lsSecuritySettings, restoredAds >>
browserVars == << history, historyIndex, canGoBack, canGoForward, currentUrl >>
tabVars == << tabs, activeTabId, nextTabId, currentTab >>
lateVars == << thmVars, rescanVars, browserVars, tabVars >>
callRest == << filterError, logFault, stoRest, busVars, lateVars >>
callVars == << filterError, logFault, stoVars, busVars, lateVars >>
extVars == << domVars, pmxVars, legxVars, urlFacts, tdVars, callVars >>

vars == << secVars, adbVars, privVars, umbraVars, lsVars, legVars, extVars >>

\* Map.prototype.set and Map.prototype.delete
MapSet(m, k, v) == [d \in DOMAIN m \cup {k} |-> IF d = k THEN v ELSE m[d]]
MapDelete(m, k) == [d \in DOMAIN m \ {k} |-> m[d]]

\* { ...base, ...patch }
Merge(base, patch) ==
    [k \in DOMAIN base \cup DOMAIN patch |-> IF k \in DOMAIN patch THEN patch[k] ELSE base[k]]

(***************************************************************************)
(* The objects as their constructors leave them.                           *)
(***************************************************************************)
NoCheck == [url |-> "", verdict |-> NoThreat]

SecInit ==
    /\ threatDatabase = InitialThreatDatabase
    /\ securityRules = InitialSecurityRules
    /\ blockedSites = {}
    /\ scanResults = << >>
    /\ smEnabled = TRUE
    /\ whitelisted = {}
    /\ lastCheck = NoCheck
    /\ ruleAdds = 0

NoAdCheck == [url |-> "", blocked |-> FALSE]

AdbInit ==
    /\ adEnabled = TRUE
    /\ whitelist = {}
    /\ customFilters = << >>
    /\ blockedAds = {}
    /\ statistics = [totalBlocked |-> 0, sessionBlocked |-> 0, blockedByType |-> << >>]
    /\ lastAdCheck = NoAdCheck

DefaultPrivacySettings ==
    [blockTrackers |-> TRUE, clearOnExit |-> TRUE, doNotTrack |-> TRUE,
     blockThirdPartyCookies |-> TRUE, clearHistory |-> TRUE, clearCookies |-> TRUE,
     clearLocalStorage |-> TRUE, clearSessionStorage |-> TRUE]

PrivInit ==
    /\ pmIsPrivacyMode = TRUE
    /\ privacySettings = DefaultPrivacySettings
    /\ blockedTrackers = {}
    /\ sessionData = << >>

DefaultSettings ==
    [theme |-> "light", adBlockEnabled |-> TRUE, securityEnabled |-> TRUE,
     privacyMode |-> TRUE, defaultSearchEngine |-> "google"]

UmbraInit ==
    /\ isPrivacyMode = TRUE
    /\ settings = DefaultSettings
    /\ frameSrc = ""
    /\ frameHidden = TRUE
    /\ overlay = "none"
    /\ addressBar = ""
    /\ loadTimers = << >>
    /\ navigations = 0
    /\ frameRejected = FALSE

LsInit ==
    /\ lsSettings = << >>
    /\ lsPrivacySettings = << >>
    /\ lsCustomFilters = << >>
    /\ lsAdWhitelist = << >>
    /\ writtenWhilePrivate = {}

\* the legacy page before anything was logged
LegInit ==
    /\ isPrivateMode = FALSE
    /\ privateMode = FALSE
    /\ lsSecurityLog = << >>
    /\ lsBlockedRequests = << >>
    /\ secHistory = << >>
    /\ blkHistory = << >>
    /\ now = 1

\* the AdBlocker's view of siteFrame before any page was loaded into it
NotDisabled == [disabled |-> FALSE, total |-> 0, hidden |-> {}]

DomInit ==
    /\ frameDoc = EmptyDoc
    /\ frameAccessible = TRUE
    /\ adTimers = 0
    /\ atDisable = NotDisabled
    /\ domEvents = 0

\* PrivacyManager.enablePrivacyMode with clearExistingData: what it does, in
\* the order in which it does it
EnableTrace(ps) ==
    << "enable", "observer", "discard" >>
    \o (IF ps.clearSessionStorage THEN << "sessionStorage" >> ELSE << >>)
    \o (IF ps.clearLocalStorage /\ ps.clearOnExit THEN << "localStorage" >> ELSE << >>)
    \o (IF ps.clearCookies THEN << "cookies" >> ELSE << >>)
    \o << "cache" >>

\* the constructor's init() has called enablePrivacyMode
PmxInit ==
    /\ pmTrace = EnableTrace(DefaultPrivacySettings)
    /\ clock = 0

\* no iframe was filtered yet
NoIframe == [orig |-> "", src |-> "", sandbox |-> "", steps |-> << >>]
NoCounts == [ad |-> 0, malware |-> 0, phishing |-> 0]

\* the legacy page after construction of its two managers
LegPageInit ==
    /\ legDoc = LegacyFreshDoc
    /\ lastIframe = NoIframe
    /\ realSession = {}
    /\ legSessionData = {}
    /\ blockedCounts = NoCounts

\* no element was measured yet
DimInit ==
    /\ rect = << 0, 0 >>
    /\ dimAnswer = << >>

LegxInit == LegPageInit /\ DimInit

\* the rendered sizes measured: every banner size, and the sizes just inside,
\* on and just outside the tolerance on each axis
DimOffsets == {0 - 11, 0 - 10, 0 - 9, 0, 9, 10, 11}
DimInputs ==
    { << size[1] + dx, size[2] + dy >> : size \in CommonAdSizes, dx \in DimOffsets,
                                         dy \in DimOffsets }

\* an element of some size is about to be measured
DimInitAny ==
    /\ rect \in DimInputs
    /\ dimAnswer = << >>

\* no manager was destroyed; the load listener has not observed a document yet
Managers == {"ad", "sm", "pm"}
TdInit ==
    /\ destroyed = [c \in Managers |-> 0]
    /\ filterListsLoaded = TRUE
    /\ adObserving = FALSE
    /\ destroyError = ""

\* an empty store; no store() call yet
NoStoreCall ==
    [key |-> "", attempts |-> 0, sweeps |-> 0, evicted |-> {}, kept |-> {},
     usedAt |-> << >>, result |-> "none", stored |-> FALSE]
NoRetrieveCall == [key |-> "", served |-> FALSE, stored |-> FALSE]
StoInit ==
    /\ smStore = << >>
    /\ smCache = << >>
    /\ smUsed = << >>
    /\ smClock = 0
    /\ lastStore = NoStoreCall
    /\ lastRetrieve = NoRetrieveCall

\* the event system with no callback registered and no event emitted
BusEvents == {"beforeNavigate", "privacyModeToggle"}
NoEmit == [event |-> "", listeners |-> << >>, called |-> << >>, logged |-> << >>,
           error |-> ""]
BusInit ==
    /\ eventListeners = [ev \in BusEvents |-> << >>]
    /\ lastEmit = NoEmit

\* the ThemeManager under construction: umbra.themeManager is still null
ThemeInit ==
    /\ themeInstalled = FALSE
    /\ currentTheme = "light"
    /\ themeFrames = << >>
    /\ themeResult = ""

\* the legacy SecurityManager as constructed: no element scanned yet
RescanInit ==
    /\ adBlockEnabled = LegacyAdBlockEnabled
    /\ legScanned = {}
    /\ lsSecuritySettings = << >>
    /\ restoredAds = {}

\* the Browser after its constructor and init()
BrowserInit ==
    /\ history = << >>
    /\ historyIndex = 0 - 1
    /\ canGoBack = FALSE
    /\ canGoForward = FALSE
    /\ currentUrl = ""

\* the TabManager after its constructor and init(): createInitialTab has
\* created the tab 1 and switched to it
TabInit ==
    /\ tabs = << [id |-> 1, isActive |-> TRUE, url |-> ""] >>
    /\ activeTabId = 1
    /\ nextTabId = 2
    /\ currentTab = 1

LateInit == ThemeInit /\ RescanInit /\ BrowserInit /\ TabInit

\* no call has raised an error yet
CallInit == filterError = "" /\ logFault = "" /\ StoInit /\ BusInit /\ LateInit

ExtInit == DomInit /\ PmxInit /\ LegxInit /\ urlFacts = UrlFacts /\ TdInit /\ CallInit

(***************************************************************************)
(* SecurityManager (component architecture): operations.                   *)
(***************************************************************************)
\* SecurityManager.blockDomain(domain)
blockDomain(domain) ==
    /\ threatDatabase' = MapSet(threatDatabase, domain, [type |-> "blocked", by |-> "user"])
    /\ whitelisted' = whitelisted \ {domain}
    /\ UNCHANGED << securityRules, blockedSites, scanResults, smEnabled, lastCheck, ruleAdds >>
    /\ UNCHANGED << adbVars, privVars, umbraVars, lsVars, legVars, extVars >>

\* SecurityManager.whitelistDomain(domain)
whitelistDomain(domain) ==
    /\ threatDatabase' = MapDelete(threatDatabase, domain)
    /\ blockedSites' = blockedSites \ {domain}
    /\ whitelisted' = whitelisted \cup {domain}
    /\ UNCHANGED << securityRules, scanResults, smEnabled, lastCheck, ruleAdds >>
    /\ UNCHANGED << adbVars, privVars, umbraVars, lsVars, legVars, extVars >>

\* SecurityManager.addSecurityRule(rule)
addSecurityRule(rule) ==
    /\ ruleAdds < MaxRules
    /\ securityRules' = Append(securityRules, rule)
    /\ ruleAdds' = ruleAdds + 1
    /\ UNCHANGED << threatDatabase, blockedSites, scanResults, smEnabled, whitelisted, lastCheck >>
    /\ UNCHANGED << adbVars, privVars, umbraVars, lsVars, legVars, extVars >>

\* SecurityManager.removeSecurityRule(pattern): the rules whose pattern prints
\* like the argument (source and flags) go
removeSecurityRule(pattern) ==
    /\ \E i \in 1..Len(securityRules) :
          securityRules[i].src = pattern.src /\ securityRules[i].global = pattern.global
    /\ securityRules' = SelectSeq(securityRules,
          LAMBDA r : ~(r.src = pattern.src /\ r.global = pattern.global))
    /\ UNCHANGED << threatDatabase, blockedSites, scanResults, smEnabled, whitelisted,
                    lastCheck, ruleAdds >>
    /\ UNCHANGED << adbVars, privVars, umbraVars, lsVars, legVars, extVars >>

\* checkUrl(url) on a manager holding database db and rules
checkUrl(url, db, rules) == classify(urlFacts[url], db, rules)

\* the facts of a URL as the AdBlocker's filterLists now give them: no default
\* filter matches once the lists were cleared
AdFacts(f) == IF filterListsLoaded THEN f ELSE [f EXCEPT !.adDefault = FALSE]

\* the blocks of blockAdsInDocument as the filterLists now give them: no CSS
\* filter is collected once the lists were cleared
LoadedBlocks(blocks) ==
    IF filterListsLoaded THEN blocks ELSE {b \in blocks : b[2] # "css"}

\* a caller classifies url: SecurityManager.checkUrl(url)
CheckUrlCall(url) ==
    LET r == checkUrl(url, threatDatabase, securityRules)
    IN /\ securityRules' = r.rules
       /\ lastCheck' = [url |-> url, verdict |-> r.verdict]
       /\ UNCHANGED << threatDatabase, blockedSites, scanResults, smEnabled, whitelisted,
                       ruleAdds >>
       /\ UNCHANGED << adbVars, privVars, umbraVars, lsVars, legVars, extVars >>

CheckInputs == Urls \cup { AnythingUrl(d) : d \in DomainInputs }

(***************************************************************************)
(* AdBlocker: operations.                                                  *)
(***************************************************************************)
\* AdBlocker.addCustomFilter(pattern, type, description): the filter object is
\* built first, and building it compiles the pattern; a SyntaxError leaves the
\* method before the push and before saveCustomFilters.  The result holds the
\* list, the text saved (<< >> when nothing is saved) and the error raised.
\* addCustomFilterPushFirst is the variant that appends to the list before it
\* compiles the pattern.
addCustomFilterPushFirst(filters, pattern, type) ==
    LET pushed == Append(filters, CustomFilter(pattern, type))
    IN IF Compiles(pattern)
       THEN [filters |-> pushed, saved |-> << StringifyFilters(pushed) >>, error |-> ""]
       ELSE [filters |-> pushed, saved |-> << >>, error |-> "SyntaxError"]

addCustomFilterResult(filters, pattern, type) ==
    IF Compiles(pattern)
    THEN LET pushed == Append(filters, CustomFilter(pattern, type))
         IN [filters |-> pushed, saved |-> << StringifyFilters(pushed) >>, error |-> ""]
    ELSE [filters |-> filters, saved |-> << >>, error |-> "SyntaxError"]

addCustomFilter(pattern, type) ==
    LET r == addCustomFilterResult(customFilters, pattern, type)
    IN /\ Len(customFilters) < MaxFilters
       /\ customFilters' = r.filters
       /\ lsCustomFilters' = IF r.saved = << >> THEN lsCustomFilters ELSE r.saved
       /\ filterError' = r.error
       /\ UNCHANGED << adEnabled, whitelist, blockedAds, statistics, lastAdCheck >>
       /\ UNCHANGED << lsSettings, lsPrivacySettings, lsAdWhitelist, writtenWhilePrivate >>
       /\ UNCHANGED << secVars, privVars, umbraVars, legVars, domVars, pmxVars, legxVars,
                       urlFacts, tdVars, logFault, stoVars, busVars,
                       lateVars >>

\* AdBlocker.removeCustomFilter(index), index counted from 0
removeCustomFilter(index) ==
    /\ index >= 0 /\ index < Len(customFilters)
    /\ customFilters' = SubSeq(customFilters, 1, index)
                           \o SubSeq(customFilters, index + 2, Len(customFilters))
    /\ lsCustomFilters' = << StringifyFilters(customFilters') >>
    /\ UNCHANGED << adEnabled, whitelist, blockedAds, statistics, lastAdCheck >>
    /\ UNCHANGED << lsSettings, lsPrivacySettings, lsAdWhitelist, writtenWhilePrivate >>
    /\ UNCHANGED << secVars, privVars, umbraVars, legVars, extVars >>

\* AdBlocker.addToWhitelist(domain), saveWhitelist included
addToWhitelist(domain) ==
    /\ whitelist' = whitelist \cup {toLowerCase(domain)}
    /\ lsAdWhitelist' = << whitelist' >>
    /\ UNCHANGED << adEnabled, customFilters, blockedAds, statistics, lastAdCheck >>
    /\ UNCHANGED << lsSettings, lsPrivacySettings, lsCustomFilters, writtenWhilePrivate >>
    /\ UNCHANGED << secVars, privVars, umbraVars, legVars, extVars >>

\* AdBlocker.removeFromWhitelist(domain)
removeFromWhitelist(domain) ==
    /\ whitelist' = whitelist \ {toLowerCase(domain)}
    /\ lsAdWhitelist' = << whitelist' >>
    /\ UNCHANGED << adEnabled, customFilters, blockedAds, statistics, lastAdCheck >>
    /\ UNCHANGED << lsSettings, lsPrivacySettings, lsCustomFilters, writtenWhilePrivate >>
    /\ UNCHANGED << secVars, privVars, umbraVars, legVars, extVars >>

\* a caller asks AdBlocker.shouldBlockUrl(url)
ShouldBlockUrlCall(url) ==
    /\ lastAdCheck' =
          [url |-> url,
           blocked |-> shouldBlockUrl(AdFacts(urlFacts[url]), whitelist, customFilters)]
    /\ UNCHANGED << adEnabled, whitelist, customFilters, blockedAds, statistics >>
    /\ UNCHANGED << secVars, privVars, umbraVars, lsVars, legVars, extVars >>

\* what a fresh AdBlocker holds after loadCustomFilters and loadWhitelist
FreshCustomFilters ==
    IF lsCustomFilters = << >> THEN << >> ELSE ParseFilters(lsCustomFilters[1])
FreshWhitelist == IF lsAdWhitelist = << >> THEN {} ELSE lsAdWhitelist[1]

(***************************************************************************)
(* UmbraBrowser and PrivacyManager (component architecture): settings and  *)
(* the privacy mode.                                                       *)
(***************************************************************************)
\* localStorage.setItem(key, ...) noted when it happens while the browser is
\* in privacy mode
NoteWrite(written, key, private) == IF private THEN written \cup {key} ELSE written

\* UmbraBrowser.updateSettings(newSettings): the merge, saveSettings, and, when
\* newSettings carries privacyMode, emit('privacyModeToggle') whose listener
\* handlePrivacyModeToggle sets the mode and calls saveSettings again
updateSettings(newSettings) ==
    LET merged == Merge(settings, newSettings)
        first == NoteWrite(writtenWhilePrivate, "umbra-settings", isPrivacyMode)
    IN /\ settings' = merged
       /\ lsSettings' = << merged >>
       /\ IF "privacyMode" \in DOMAIN newSettings
          THEN /\ isPrivacyMode' = newSettings.privacyMode
               /\ writtenWhilePrivate' =
                     NoteWrite(first, "umbra-settings", newSettings.privacyMode)
          ELSE /\ isPrivacyMode' = isPrivacyMode
               /\ writtenWhilePrivate' = first
       /\ UNCHANGED << frameSrc, frameHidden, overlay, addressBar, loadTimers,
                       navigations, frameRejected >>
       /\ UNCHANGED << lsPrivacySettings, lsCustomFilters, lsAdWhitelist >>
       /\ UNCHANGED << privVars, legVars, pmxVars, legxVars, urlFacts, tdVars, callVars >>

\* settings panel, privacy mode checkbox
PrivacyModeChanged(checked) ==
    /\ updateSettings([privacyMode |-> checked])
    /\ UNCHANGED << secVars, adbVars, domVars >>

\* settings panel, ad block checkbox: updateSettings, then adBlocker.enable()
\* or adBlocker.disable(); enable() sets a timer for blockAdsInCurrentPage
AdBlockChanged(checked) ==
    /\ checked => adTimers < MaxTimers
    /\ updateSettings([adBlockEnabled |-> checked])
    /\ adEnabled' = checked
    /\ adTimers' = IF checked THEN adTimers + 1 ELSE adTimers
    /\ atDisable' =
          IF checked THEN NotDisabled
          ELSE [disabled |-> TRUE, total |-> statistics.totalBlocked,
                hidden |-> {k \in 1..Len(PageElements) : frameDoc[k].hidden}]
    /\ UNCHANGED << whitelist, customFilters, blockedAds, statistics, lastAdCheck >>
    /\ UNCHANGED << frameDoc, frameAccessible, domEvents >>
    /\ UNCHANGED secVars

\* settings panel, security checkbox: updateSettings, then
\* securityManager.enable() or securityManager.disable()
SecurityChanged(checked) ==
    /\ updateSettings([securityEnabled |-> checked])
    /\ smEnabled' = checked
    /\ UNCHANGED << threatDatabase, securityRules, blockedSites, scanResults,
                    whitelisted, lastCheck, ruleAdds >>
    /\ UNCHANGED << adbVars, domVars >>

\* settings panel, search engine selection
SearchEngineChanged(value) ==
    /\ updateSettings([defaultSearchEngine |-> value])
    /\ UNCHANGED << secVars, adbVars, domVars >>

SearchEngines == {"google", "duckduckgo"}

\* PrivacyManager.togglePrivacyMode: disablePrivacyMode, or enablePrivacyMode
\* with its clearExistingData, then emit('privacyModeToggle') whose listener
\* is UmbraBrowser.handlePrivacyModeToggle
togglePrivacyMode ==
    LET enabled == ~pmIsPrivacyMode
        clears == /\ enabled
                  /\ privacySettings.clearLocalStorage
                  /\ privacySettings.clearOnExit        \* localStorage.clear()
    IN /\ pmIsPrivacyMode' = enabled
       /\ pmTrace' = IF enabled THEN Append(EnableTrace(privacySettings), "emit")
                     ELSE << "disable", "emit" >>
       /\ blockedTrackers' = IF enabled THEN {} ELSE blockedTrackers
       /\ sessionData' = IF enabled THEN << >> ELSE sessionData
       /\ lsPrivacySettings' = IF clears THEN << >> ELSE lsPrivacySettings
       /\ lsCustomFilters' = IF clears THEN << >> ELSE lsCustomFilters
       /\ lsAdWhitelist' = IF clears THEN << >> ELSE lsAdWhitelist
       /\ smStore' = IF clears THEN << >> ELSE smStore
       /\ isPrivacyMode' = enabled
       /\ settings' = [settings EXCEPT !.privacyMode = enabled]
       /\ lsSettings' = << settings' >>
       /\ writtenWhilePrivate' = NoteWrite(writtenWhilePrivate, "umbra-settings", enabled)
       /\ UNCHANGED << privacySettings, frameSrc, frameHidden, overlay, addressBar,
                       loadTimers, navigations, frameRejected >>
       /\ UNCHANGED << secVars, adbVars, legVars, domVars, clock, legxVars, urlFacts, tdVars,
                       callRest >>

\* PrivacyManager.enablePrivacyMode() called by itself: the flag of the
\* manager, updatePrivacyUI, enableTrackingProtection, clearExistingData; no
\* event is emitted
enablePrivacyMode ==
    LET clears == privacySettings.clearLocalStorage /\ privacySettings.clearOnExit
    IN /\ pmIsPrivacyMode' = TRUE
       /\ pmTrace' = EnableTrace(privacySettings)
       /\ blockedTrackers' = {}
       /\ sessionData' = << >>
       /\ lsSettings' = IF clears THEN << >> ELSE lsSettings
       /\ lsPrivacySettings' = IF clears THEN << >> ELSE lsPrivacySettings
       /\ lsCustomFilters' = IF clears THEN << >> ELSE lsCustomFilters
       /\ lsAdWhitelist' = IF clears THEN << >> ELSE lsAdWhitelist
       /\ smStore' = IF clears THEN << >> ELSE smStore
       /\ UNCHANGED << privacySettings, writtenWhilePrivate, umbraVars >>
       /\ UNCHANGED << secVars, adbVars, legVars, domVars, clock, legxVars, urlFacts,
                       tdVars, callRest >>

\* PrivacyManager.disablePrivacyMode() called by itself
disablePrivacyMode ==
    /\ pmIsPrivacyMode' = FALSE
    /\ pmTrace' = << "disable" >>
    /\ UNCHANGED << privacySettings, blockedTrackers, sessionData, umbraVars, lsVars >>
    /\ UNCHANGED << secVars, adbVars, legVars, domVars, clock, legxVars, urlFacts,
                    tdVars, callVars >>

\* PrivacyManager.updatePrivacySettings(newSettings), savePrivacySettings included
updatePrivacySettings(newSettings) ==
    /\ privacySettings' = Merge(privacySettings, newSettings)
    /\ lsPrivacySettings' = << privacySettings' >>
    /\ writtenWhilePrivate' =
          NoteWrite(writtenWhilePrivate, "umbra-privacy-settings", isPrivacyMode)
    /\ UNCHANGED << pmIsPrivacyMode, blockedTrackers, sessionData >>
    /\ UNCHANGED << lsSettings, lsCustomFilters, lsAdWhitelist >>
    /\ UNCHANGED << secVars, adbVars, umbraVars, legVars, extVars >>

PrivacySettingsInputs ==
    { [blockTrackers |-> FALSE], [blockTrackers |-> TRUE],
      [clearOnExit |-> FALSE], [clearOnExit |-> TRUE] }

\* the settings changes that bear on what is purged
PurgeSettingsInputs ==
    { [clearOnExit |-> FALSE], [clearOnExit |-> TRUE], [clearSessionStorage |-> FALSE] }

(***************************************************************************)
(* PrivacyManager (js/features/privacy.js): the automatic purges.  The     *)
(* clock counts quarters of an hour.                                       *)
(***************************************************************************)
OneHour == 4
IntervalPeriod == 2

\* PrivacyManager.clearTemporaryData at time t
clearTemporaryData(data, t) ==
    LET oneHourAgo == t - OneHour
        kept == {tabId \in DOMAIN data : ~(data[tabId].timestamp < oneHourAgo)}
    IN IF kept = {} THEN << >> ELSE [tabId \in kept |-> data[tabId]]

\* 'visibilitychange' reaches handleVisibilityChange, hidden = document.hidden
handleVisibilityChange(hidden) ==
    /\ sessionData' = IF hidden /\ pmIsPrivacyMode
                      THEN clearTemporaryData(sessionData, clock) ELSE sessionData
    /\ UNCHANGED << pmIsPrivacyMode, privacySettings, blockedTrackers >>
    /\ UNCHANGED << secVars, adbVars, umbraVars, lsVars, legVars, extVars >>

\* a quarter of an hour passes; the callback of setupDataClearingInterval
\* runs whenever its period is complete
QuarterHourPasses ==
    /\ clock < MaxClock
    /\ clock' = clock + 1
    /\ sessionData' = IF clock' % IntervalPeriod = 0 /\ pmIsPrivacyMode
                      THEN clearTemporaryData(sessionData, clock') ELSE sessionData
    /\ UNCHANGED << pmIsPrivacyMode, privacySettings, blockedTrackers >>
    /\ UNCHANGED << secVars, adbVars, umbraVars, lsVars, legVars, domVars, pmTrace,
                    legxVars, urlFacts, tdVars, callVars >>

\* PrivacyManager.clearAllData under the settings ps; s holds the four
\* localStorage items, sessionData and blockedTrackers.  clearLocalStorage
\* puts 'umbra-settings' back unless clearOnExit is set
clearAllData(s, ps) ==
    LET clears == ps.clearLocalStorage                     \* localStorage.clear()
    IN [settings |-> IF clears /\ ps.clearOnExit THEN << >> ELSE s.settings,
        privacy |-> IF clears THEN << >> ELSE s.privacy,
        filters |-> IF clears THEN << >> ELSE s.filters,
        whitelist |-> IF clears THEN << >> ELSE s.whitelist,
        sessionData |-> << >>,
        blockedTrackers |-> {}]

\* window fires 'beforeunload': PrivacyManager.handleBeforeUnload (clearAllData
\* if Private and clearOnExit), then UmbraBrowser.handleBeforeUnload
\* (clearAllData if the browser is in privacy mode, then saveSettings)
handleBeforeUnload ==
    LET s0 == [settings |-> lsSettings, privacy |-> lsPrivacySettings,
               filters |-> lsCustomFilters, whitelist |-> lsAdWhitelist,
               sessionData |-> sessionData, blockedTrackers |-> blockedTrackers]
        s1 == IF pmIsPrivacyMode /\ privacySettings.clearOnExit
              THEN clearAllData(s0, privacySettings) ELSE s0
        s2 == IF isPrivacyMode THEN clearAllData(s1, privacySettings) ELSE s1
    IN /\ sessionData' = s2.sessionData
       /\ blockedTrackers' = s2.blockedTrackers
       /\ lsSettings' = << settings >>
       /\ lsPrivacySettings' = s2.privacy
       /\ lsCustomFilters' = s2.filters
       /\ lsAdWhitelist' = s2.whitelist
       /\ smStore' = IF /\ (pmIsPrivacyMode /\ privacySettings.clearOnExit) \/ isPrivacyMode
                        /\ privacySettings.clearLocalStorage
                     THEN << >> ELSE smStore
       /\ writtenWhilePrivate' =
             NoteWrite(writtenWhilePrivate, "umbra-settings", isPrivacyMode)
       /\ UNCHANGED << pmIsPrivacyMode, privacySettings >>
       /\ UNCHANGED << secVars, adbVars, umbraVars, legVars, domVars, pmxVars, legxVars,
                       urlFacts, tdVars, callRest >>

(***************************************************************************)
(* UmbraBrowser.navigate and the loadUrl timer.  The page is taken to hold *)
(* the elements the code looks up (siteFrame, browserViewport).            *)
(***************************************************************************)
\* UmbraBrowser.emit: forEach calls every listener and drops what it returns;
\* emit itself has no return statement
emit(returned) == "undefined"

\* UmbraBrowser.navigate once the URL is normalised, f being the facts of
\* url.  The 'beforeNavigate' listeners run in the
\* order they registered: PrivacyManager, SecurityManager, AdBlocker,
\* UmbraBrowser.  A threat found by SecurityManager.handleBeforeNavigation goes
\* through handleSecurityThreat (blockedSites, scanResults) and the
\* 'securityThreat' and 'siteBlocked' events to showBlockedPage; one found by
\* UmbraBrowser.handleBeforeNavigation goes through the two events.
navigateTo(url, f) ==
    /\ navigations < MaxNavigations
    /\ LET privacy == IF pmIsPrivacyMode /\ privacySettings.blockTrackers /\ f.tracker
                      THEN "false" ELSE "true"
           c1 == classify(f, threatDatabase, securityRules)
           security == IF smEnabled /\ c1.verdict # NoThreat THEN "false" ELSE "true"
           rules1 == IF smEnabled THEN c1.rules ELSE securityRules
           adblock == IF adEnabled /\ shouldBlockUrl(AdFacts(f), whitelist, customFilters)
                      THEN "false" ELSE "true"
           c2 == classify(f, threatDatabase, rules1)
           umbra == IF settings.securityEnabled /\ c2.verdict # NoThreat
                    THEN "false" ELSE "true"
           rules2 == IF settings.securityEnabled THEN c2.rules ELSE rules1
           canNavigate == emit(<< privacy, security, adblock, umbra >>)
           \* handleSecurityThreat of a destroyed SecurityManager throws at
           \* this.umbra.emit, before 'securityThreat' is emitted
           blockedPage == (security = "false" /\ destroyed.sm = 0) \/ umbra = "false"
       IN /\ blockedTrackers' =
                IF privacy = "false" THEN blockedTrackers \cup {url} ELSE blockedTrackers
          /\ securityRules' = rules2
          /\ blockedSites' =
                IF security = "false" THEN blockedSites \cup {url} ELSE blockedSites
          /\ scanResults' =
                IF security = "false" THEN MapSet(scanResults, url, c1.verdict)
                ELSE scanResults
          /\ LET a == blockAd([ads |-> blockedAds, stats |-> statistics],
                               IF adblock = "false" THEN {<< 0, "url", url >>} ELSE {})
             IN blockedAds' = a.ads /\ statistics' = a.stats
          /\ frameHidden' = (blockedPage \/ frameHidden)
          /\ overlay' = IF blockedPage THEN "shown" ELSE overlay
          /\ loadTimers' =
                IF canNavigate = "false" THEN loadTimers
                ELSE Append(loadTimers, [url |-> url, rejected |-> security = "false"])
    /\ navigations' = navigations + 1
    /\ UNCHANGED << threatDatabase, smEnabled, whitelisted, lastCheck, ruleAdds >>
    /\ UNCHANGED << adEnabled, whitelist, customFilters, lastAdCheck >>
    /\ UNCHANGED << pmIsPrivacyMode, privacySettings, sessionData >>
    /\ UNCHANGED << isPrivacyMode, settings, frameSrc, addressBar, frameRejected >>
    /\ UNCHANGED << lsVars, legVars, extVars >>

\* UmbraBrowser.navigate(url)
navigate(input) ==
    /\ input # ""
    /\ navigateTo(normalizeTarget(input), urlFacts[normalizeTarget(input)])

\* the timer navigate set fires: UmbraBrowser.loadUrl(url, tabId) and the
\* 'navigate' listeners (AdBlocker, PrivacyManager, UmbraBrowser, Browser)
LoadUrlTimer ==
    /\ loadTimers # << >>
    /\ adEnabled => adTimers < MaxTimers
    /\ frameSrc' = loadTimers[1].url
    /\ frameRejected' = loadTimers[1].rejected
    /\ frameHidden' = FALSE
    /\ overlay' = IF overlay = "shown" THEN "hidden" ELSE overlay
    /\ statistics' = IF adEnabled THEN [statistics EXCEPT !.sessionBlocked = 0]
                     ELSE statistics
    /\ adTimers' = IF adEnabled THEN adTimers + 1 ELSE adTimers
    /\ sessionData' =
          IF pmIsPrivacyMode
          THEN MapSet(sessionData, 1, [url |-> loadTimers[1].url, timestamp |-> clock])
          ELSE sessionData
    /\ addressBar' = loadTimers[1].url
    /\ loadTimers' = Tail(loadTimers)
    /\ UNCHANGED << adEnabled, whitelist, customFilters, blockedAds, lastAdCheck >>
    /\ UNCHANGED << frameDoc, frameAccessible, atDisable, domEvents >>
    /\ UNCHANGED << pmIsPrivacyMode, privacySettings, blockedTrackers >>
    /\ UNCHANGED << isPrivacyMode, settings, navigations >>
    /\ UNCHANGED << secVars, lsVars, legVars, pmxVars, legxVars, urlFacts, tdVars, callVars >>

(***************************************************************************)
(* AdBlocker: the page in siteFrame.                                       *)
(***************************************************************************)
\* the facts of the src of every element of the page
PageFacts == [k \in 1..Len(PageElements) |-> AdFacts(urlFacts[PageElements[k].src])]

\* what the three DOM events below leave alone
DomFrame ==
    /\ UNCHANGED << adEnabled, whitelist, customFilters, lastAdCheck, atDisable >>
    /\ UNCHANGED << secVars, privVars, umbraVars, lsVars, legVars, pmxVars, legxVars,
                    urlFacts, destroyed, filterListsLoaded, destroyError, callVars >>

\* siteFrame fires 'load' for a new page: the listener of startContentObservation
\* reaches the document (unless it is cross-origin: the access throws, caught),
\* observes it and runs blockAdsInDocument
FrameLoad(sameOrigin) ==
    /\ domEvents < MaxDomEvents
    /\ LET blocks == IF sameOrigin
                     THEN LoadedBlocks(DocumentBlocks(FreshDoc, PageFacts, whitelist,
                                                     customFilters))
                     ELSE {}
           a == blockAd([ads |-> blockedAds, stats |-> statistics], blocks)
       IN /\ frameDoc' = blockAdsInDocument(FreshDoc, blocks)
          /\ blockedAds' = a.ads
          /\ statistics' = a.stats
    /\ frameAccessible' = sameOrigin
    /\ adObserving' = sameOrigin
    /\ domEvents' = domEvents + 1
    /\ UNCHANGED adTimers
    /\ DomFrame

\* a timer set by handleNavigation or enable() fires: blockAdsInCurrentPage
\* (a run that blocks something counts as an event of the page)
BlockAdsTimer ==
    /\ adTimers > 0
    /\ adTimers' = adTimers - 1
    /\ LET blocks == IF frameAccessible
                     THEN LoadedBlocks(DocumentBlocks(frameDoc, PageFacts, whitelist,
                                                     customFilters))
                     ELSE {}
           a == blockAd([ads |-> blockedAds, stats |-> statistics], blocks)
       IN /\ blocks # {} => domEvents < MaxDomEvents
          /\ domEvents' = IF blocks # {} THEN domEvents + 1 ELSE domEvents
          /\ frameDoc' = blockAdsInDocument(frameDoc, blocks)
          /\ blockedAds' = a.ads
          /\ statistics' = a.stats
    /\ UNCHANGED << frameAccessible, adObserving >>
    /\ DomFrame

\* the page inserts element k (anew, if it had been removed): the callback of
\* contentObserver runs scanAndBlockAds on the added node, which has no
\* descendants
MutationBatch(k) ==
    /\ domEvents < MaxDomEvents
    /\ frameAccessible /\ frameDoc # EmptyDoc
    /\ adObserving
    /\ frameDoc[k].where # "attached"
    /\ LET isAd == adEnabled /\ isAdElement(PageElements[k])
           a == blockAd([ads |-> blockedAds, stats |-> statistics],
                        IF isAd THEN {<< k, "element", tagName(PageElements[k]) >>} ELSE {})
       IN /\ frameDoc' = [frameDoc EXCEPT ![k] = IF isAd
                                                 THEN hideElement(ElementState("attached"))
                                                 ELSE ElementState("attached")]
          /\ blockedAds' = a.ads
          /\ statistics' = a.stats
    /\ domEvents' = domEvents + 1
    /\ UNCHANGED << frameAccessible, adTimers, adObserving >>
    /\ DomFrame

(***************************************************************************)
(* Teardown: destroy() of the three managers.  The listeners a manager     *)
(* registered on the event bus, on siteFrame and on window, its timers and *)
(* its interval stay registered.                                           *)
(***************************************************************************)
\* AdBlocker.destroy()
destroyAdBlocker ==
    /\ destroyed.ad < MaxDestroys
    /\ destroyed' = [destroyed EXCEPT !.ad = @ + 1]
    /\ adObserving' = FALSE                     \* contentObserver.disconnect()
    /\ blockedAds' = {}
    /\ filterListsLoaded' = FALSE
    /\ customFilters' = << >>
    /\ whitelist' = {}
    /\ destroyError' = ""
    /\ UNCHANGED << adEnabled, statistics, lastAdCheck >>
    /\ UNCHANGED << secVars, privVars, umbraVars, lsVars, legVars, domVars, pmxVars,
                    legxVars, urlFacts, callVars >>

\* SecurityManager.destroy()
destroySecurityManager ==
    /\ destroyed.sm < MaxDestroys
    /\ destroyed' = [destroyed EXCEPT !.sm = @ + 1]
    /\ threatDatabase' = << >>
    /\ blockedSites' = {}
    /\ securityRules' = << >>
    /\ scanResults' = << >>
    /\ destroyError' = ""
    /\ UNCHANGED << smEnabled, whitelisted, lastCheck, ruleAdds >>
    /\ UNCHANGED << adbVars, privVars, umbraVars, lsVars, legVars, domVars, pmxVars,
                    legxVars, urlFacts, filterListsLoaded, adObserving, callVars >>

\* PrivacyManager.destroy(): clearAllData first, whose clearHistory reads
\* this.umbra.tabManager; this.umbra is null once destroy() has run
destroyPrivacyManager ==
    LET throws == destroyed.pm > 0 /\ privacySettings.clearHistory
        s == clearAllData([settings |-> lsSettings, privacy |-> lsPrivacySettings,
                           filters |-> lsCustomFilters, whitelist |-> lsAdWhitelist,
                           sessionData |-> sessionData,
                           blockedTrackers |-> blockedTrackers], privacySettings)
    IN /\ destroyed.pm < MaxDestroys
       /\ destroyed' = [destroyed EXCEPT !.pm = @ + 1]
       /\ destroyError' = IF throws THEN "TypeError" ELSE ""
       /\ IF throws
          THEN UNCHANGED << sessionData, blockedTrackers, lsSettings, lsPrivacySettings,
                            lsCustomFilters, lsAdWhitelist, smStore >>
          ELSE /\ smStore' = IF privacySettings.clearLocalStorage THEN << >> ELSE smStore
               /\ sessionData' = s.sessionData
               /\ blockedTrackers' = s.blockedTrackers
               /\ lsSettings' = s.settings
               /\ lsPrivacySettings' = s.privacy
               /\ lsCustomFilters' = s.filters
               /\ lsAdWhitelist' = s.whitelist
       /\ UNCHANGED << pmIsPrivacyMode, privacySettings, writtenWhilePrivate >>
       /\ UNCHANGED << secVars, adbVars, umbraVars, legVars, domVars, pmxVars, legxVars,
                       urlFacts, filterListsLoaded, adObserving, callRest >>

(***************************************************************************)
(* Legacy page scripts: the two persisted logs and the two privacy flags.  *)
(***************************************************************************)
SecurityLogCap == 1000
BlockedRequestsCap == 100

SecurityEventTypes == {"malware", "phishing"}
BlockedRequestTypes == {"tracking"}

\* an entry: its type, its timestamp and, as history, whether the browser was
\* in Private mode when it was recorded
LogEntry(type, t, private) == [type |-> type, t |-> t, private |-> private]

\* a log of n entries written by earlier sessions, none of them Private
EarlierLog(n, type) == [i \in 1..n |-> LogEntry(type, i - n, FALSE)]

\* the trim of logSecurityEvent done from the wrong end: the oldest survive
TrimSecurityLogOldest(log) ==
    IF Len(log) > SecurityLogCap THEN SubSeq(log, 1, SecurityLogCap) ELSE log

\* logSecurityEvent: securityLog.splice(0, securityLog.length - 1000)
TrimSecurityLog(log) ==
    IF Len(log) > SecurityLogCap
    THEN SubSeq(log, Len(log) - SecurityLogCap + 1, Len(log))
    ELSE log

\* logBlockedRequest: blockedRequests.splice(0, blockedRequests.length - 100)
TrimBlockedRequests(log) ==
    IF Len(log) > BlockedRequestsCap
    THEN SubSeq(log, Len(log) - BlockedRequestsCap + 1, Len(log))
    ELSE log

\* SecurityManager.logSecurityEvent(type, details)            (scripts/security.js)
logSecurityEvent(type) ==
    LET event == LogEntry(type, now, isPrivateMode)
        securityLog == TrimSecurityLog(Append(lsSecurityLog, event))
    IN /\ now <= MaxEvents
       /\ now' = now + 1
       /\ IF ~isPrivateMode
          THEN /\ lsSecurityLog' = securityLog
               /\ secHistory' = Append(secHistory, event)
          ELSE UNCHANGED << lsSecurityLog, secHistory >>
       /\ UNCHANGED << isPrivateMode, privateMode, lsBlockedRequests, blkHistory >>
       /\ UNCHANGED << secVars, adbVars, privVars, umbraVars, lsVars, extVars >>

\* PrivacyManager.logBlockedRequest(type, url)                 (scripts/privacy.js)
BlockedRequestLogged(type) ==
    LET request == LogEntry(type, now, isPrivateMode)
        blockedRequests == TrimBlockedRequests(Append(lsBlockedRequests, request))
    IN /\ now <= MaxEvents
       /\ now' = now + 1
       /\ IF ~privateMode
          THEN /\ lsBlockedRequests' = blockedRequests
               /\ blkHistory' = Append(blkHistory, request)
          ELSE UNCHANGED << lsBlockedRequests, blkHistory >>

logBlockedRequest(type) ==
    /\ BlockedRequestLogged(type)
    /\ UNCHANGED << isPrivateMode, privateMode, lsSecurityLog, secHistory >>
    /\ UNCHANGED << secVars, adbVars, privVars, umbraVars, lsVars, extVars >>

\* sessionStorage as monitorSessionStorage overrides it: in private mode
\* every method acts on PrivacyManager.sessionData, else on the real storage.
\* st = [real, data], private = PrivacyManager.privateMode at the call
SessionKeys == {"cart", "umbraCache"}
StorageSetItem(st, private, key) ==
    IF private THEN [st EXCEPT !.data = @ \cup {key}] ELSE [st EXCEPT !.real = @ \cup {key}]
StorageRemoveItem(st, private, key) ==
    IF private THEN [st EXCEPT !.data = @ \ {key}] ELSE [st EXCEPT !.real = @ \ {key}]
StorageClear(st, private) ==
    IF private THEN [st EXCEPT !.data = {}] ELSE [st EXCEPT !.real = {}]

\* PrivacyManager.clearAllSessionData with clearCachedData
clearAllSessionData(st, private) ==
    LET cleared == StorageClear(st, private)
        own == [cleared EXCEPT !.data = {}]
    IN StorageRemoveItem(own, private, "umbraCache")

SessionNow == [real |-> realSession, data |-> legSessionData]
LegPageFrame ==
    UNCHANGED << secVars, adbVars, privVars, umbraVars, lsVars, domVars, pmxVars, rect,
                 dimAnswer, urlFacts, tdVars, callVars >>

\* UmbraBrowser.togglePrivacyMode of the legacy page, with clearSessionData
legacyTogglePrivacyMode ==
    LET st == IF ~isPrivateMode THEN StorageClear(SessionNow, privateMode) ELSE SessionNow
    IN /\ isPrivateMode' = ~isPrivateMode
       /\ realSession' = st.real
       /\ legSessionData' = st.data
       /\ UNCHANGED << privateMode, lsSecurityLog, lsBlockedRequests, secHistory,
                       blkHistory, now, legDoc, lastIframe, blockedCounts >>
       /\ LegPageFrame

\* PrivacyManager.enablePrivateMode / disablePrivateMode       (scripts/privacy.js)
enablePrivateMode ==
    LET st == clearAllSessionData(SessionNow, TRUE)
    IN /\ privateMode' = TRUE
       /\ realSession' = st.real
       /\ legSessionData' = st.data
       /\ UNCHANGED << isPrivateMode, lsSecurityLog, lsBlockedRequests, secHistory,
                       blkHistory, now, legDoc, lastIframe, blockedCounts >>
       /\ LegPageFrame

disablePrivateMode ==
    /\ privateMode' = FALSE
    /\ UNCHANGED << isPrivateMode, lsSecurityLog, lsBlockedRequests, secHistory,
                    blkHistory, now >>
    /\ UNCHANGED << secVars, adbVars, privVars, umbraVars, lsVars, extVars >>

\* a page script calls sessionStorage.setItem(key, value)
sessionSetItem(key) ==
    LET st == StorageSetItem(SessionNow, privateMode, key)
    IN /\ realSession' = st.real
       /\ legSessionData' = st.data
       /\ UNCHANGED << isPrivateMode, privateMode, lsSecurityLog, lsBlockedRequests,
                       secHistory, blkHistory, now, legDoc, lastIframe, blockedCounts >>
       /\ LegPageFrame

\* the security events of one scan, logged one after the other
RECURSIVE PushSecurityEvents(_, _, _)
PushSecurityEvents(s, events, private) ==
    IF events = << >> THEN s
    ELSE LET event == LogEntry(Head(events), s.now, private)
             next == IF ~private
                     THEN [log |-> TrimSecurityLog(Append(s.log, event)),
                           history |-> Append(s.history, event), now |-> s.now + 1]
                     ELSE [s EXCEPT !.now = @ + 1]
         IN PushSecurityEvents(next, Tail(events), private)

CountOf(events, type) == Cardinality({i \in 1..Len(events) : events[i] = type})

\* logSecurityEvent throws: JSON.parse rejects the text under 'umbraSecurityLog',
\* or localStorage.setItem, reached outside private mode, has no space left
LogThrows == logFault = "read" \/ (logFault = "write" /\ ~isPrivateMode)

\* the DOM observer of setupDOMSecurity is handed a batch of added elements.
\* A block method counts before it logs, so the event that throws is counted
\* and not logged.
scanNodes(nodes) ==
    LET r == ScanNodes([doc |-> legDoc, events |-> << >>, thrown |-> FALSE], nodes,
                       LogThrows, adBlockEnabled)
        logged == IF r.thrown THEN SubSeq(r.events, 1, Len(r.events) - 1) ELSE r.events
        s == PushSecurityEvents([log |-> lsSecurityLog, history |-> secHistory, now |-> now],
                                logged, isPrivateMode)
    IN /\ \A i \in 1..Len(nodes) : legDoc[nodes[i]].where = "attached"
       /\ now + Len(r.events) <= MaxEvents + 1
       /\ blockedCounts.ad + blockedCounts.malware + blockedCounts.phishing
             + Len(r.events) <= MaxEvents
       /\ legDoc' = r.doc
       /\ blockedCounts' = [t \in DOMAIN blockedCounts |->
                               blockedCounts[t] + CountOf(r.events, t)]
       /\ lsSecurityLog' = s.log
       /\ secHistory' = s.history
       /\ now' = s.now
       /\ UNCHANGED << isPrivateMode, privateMode, lsBlockedRequests, blkHistory,
                       lastIframe, realSession, legSessionData >>
       /\ LegPageFrame

\* the observer is handed one added element
scanElement(k) == scanNodes(<< k >>)

\* what one scan leaves behind: the document, the counters of the block
\* methods and the security log.  A block method counts before it logs, so
\* the event that throws is counted and not logged.
ScanEffects(r) ==
    LET logged == IF r.thrown THEN SubSeq(r.events, 1, Len(r.events) - 1) ELSE r.events
        s == PushSecurityEvents([log |-> lsSecurityLog, history |-> secHistory, now |-> now],
                                logged, isPrivateMode)
    IN /\ now + Len(r.events) <= MaxScanEvents + 1
       /\ blockedCounts.ad + blockedCounts.malware + blockedCounts.phishing
             + Len(r.events) <= MaxScanEvents
       /\ legDoc' = r.doc
       /\ blockedCounts' = [t \in DOMAIN blockedCounts |->
                               blockedCounts[t] + CountOf(r.events, t)]
       /\ lsSecurityLog' = s.log
       /\ secHistory' = s.history
       /\ now' = s.now

RescanFrame ==
    /\ UNCHANGED << isPrivateMode, privateMode, lsBlockedRequests, blkHistory,
                    lastIframe, realSession, legSessionData >>
    /\ UNCHANGED << secVars, adbVars, privVars, umbraVars, lsVars, domVars, pmxVars, rect,
                    dimAnswer, urlFacts, tdVars, filterError, logFault, stoVars, busVars,
                    thmVars, browserVars, tabVars >>

\* the scan of scanCurrentPage from the page as it is, with the switch at
\* enabled
PageScan(enabled) ==
    ScanPage([r |-> [doc |-> legDoc, events |-> << >>, thrown |-> FALSE],
              scanned |-> legScanned],
             SelectSeq(DocumentOrder, LAMBDA k : InDocument(legDoc, k)),
             LogThrows, enabled)

\* SecurityManager.scanCurrentPage, run every 5 seconds by the interval of
\* setupRealTimeScanning
scanCurrentPage ==
    LET p == PageScan(adBlockEnabled)
    IN /\ ScanEffects(p.r)
       /\ legScanned' = p.scanned
       /\ UNCHANGED << adBlockEnabled, lsSecuritySettings, restoredAds >>
       /\ RescanFrame

\* SecurityManager.toggleAdBlocker, with saveSecuritySettings: switched on it
\* scans the page, switched off it shows every element marked as a blocked ad
toggleAdBlocker ==
    LET p == PageScan(TRUE)
    IN /\ adBlockEnabled' = ~adBlockEnabled
       /\ lsSecuritySettings' = IF ~isPrivateMode THEN << ~adBlockEnabled >>
                                ELSE lsSecuritySettings
       /\ IF ~adBlockEnabled
          THEN /\ ScanEffects(p.r)
               /\ legScanned' = p.scanned
               /\ UNCHANGED restoredAds
          ELSE /\ restoredAds' = {k \in DOMAIN legDoc :
                                     InDocument(legDoc, k) /\ legDoc[k].marker = "ad"}
               /\ legDoc' = [k \in DOMAIN legDoc |->
                                IF InDocument(legDoc, k) /\ legDoc[k].marker = "ad"
                                THEN [legDoc[k] EXCEPT !.hidden = FALSE, !.marker = ""]
                                ELSE legDoc[k]]
               /\ UNCHANGED << blockedCounts, lsSecurityLog, secHistory, now, legScanned >>
       /\ RescanFrame

\* the text under 'umbraSecurityLog' stops being JSON (kind "read"), or
\* localStorage runs out of space (kind "write"): other scripts of the origin
\* write to the same localStorage
securityLogFault(kind) ==
    /\ logFault = ""
    /\ logFault' = kind
    /\ UNCHANGED << legVars, legxVars, filterError, stoVars, busVars,
                       lateVars >>
    /\ UNCHANGED << secVars, adbVars, privVars, umbraVars, lsVars, domVars, pmxVars,
                    urlFacts, tdVars >>

\* the iframes the frame observer of monitorFrameLoads is handed: src, sandbox
IframeInputs ==
    { << "http://ads.doubleclick.net/pixel", "" >>,
      << "https://ads.doubleclick.net/pixel", "" >>,
      << "http://online.example/evil", "allow-scripts allow-popups" >>,
      << "https://online.example/evil", "" >> }

\* PrivacyManager.filterIframe(iframe)                         (scripts/privacy.js)
filterIframe(originalSrc, sandbox) ==
    /\ lastIframe' = filterIframeResult(originalSrc, sandbox)
    /\ IF isTrackingUrl(originalSrc)
       THEN BlockedRequestLogged("tracking")
       ELSE UNCHANGED << now, lsBlockedRequests, blkHistory >>
    /\ UNCHANGED << isPrivateMode, privateMode, lsSecurityLog, secHistory, legDoc,
                    realSession, legSessionData, blockedCounts >>
    /\ LegPageFrame

\* SecurityManager.clearSecurityLog                            (scripts/security.js)
clearSecurityLog ==
    /\ lsSecurityLog' = << >>
    /\ secHistory' = << >>
    /\ blockedCounts' = NoCounts
    /\ logFault' = ""
    /\ UNCHANGED << isPrivateMode, privateMode, lsBlockedRequests, blkHistory, now,
                    legDoc, lastIframe, realSession, legSessionData >>
    /\ UNCHANGED << secVars, adbVars, privVars, umbraVars, lsVars, domVars, pmxVars, rect,
                    dimAnswer, urlFacts, tdVars, filterError, stoVars, busVars,
                       lateVars >>

\* the legacy page with logs that earlier sessions left behind
LegInitEarlier ==
    /\ isPrivateMode = FALSE
    /\ privateMode = FALSE
    /\ \E n \in {0, SecurityLogCap - 1} : lsSecurityLog = EarlierLog(n, "ad")
    /\ \E n \in {0, BlockedRequestsCap - 1} : lsBlockedRequests = EarlierLog(n, "tracking")
    /\ secHistory = lsSecurityLog
    /\ blkHistory = lsBlockedRequests
    /\ now = 1

(***************************************************************************)
(* Specifications, one per part of the program.                            *)
(***************************************************************************)
Init == SecInit /\ AdbInit /\ PrivInit /\ UmbraInit /\ LsInit /\ LegInit /\ ExtInit

\* SpecUrl: the classifier of the SecurityManager under its mutators
UrlNext ==
    \/ \E d \in DomainInputs : blockDomain(d)
    \/ \E d \in DomainInputs : whitelistDomain(d)
    \/ \E r \in RuleInputs : addSecurityRule(r)
    \/ \E r \in RuleInputs : removeSecurityRule(r)
    \/ \E u \in CheckInputs : CheckUrlCall(u)

SpecUrl == Init /\ [][UrlNext]_vars

\* SpecAdb: the AdBlocker's filters and whitelist
AdbNext ==
    \/ \E p \in FilterInputs \cup BadFilterInputs : addCustomFilter(p[1], p[2])
    \/ \E i \in 0..(MaxFilters - 1) : removeCustomFilter(i)
    \/ \E d \in WhitelistInputs : addToWhitelist(d)
    \/ \E d \in WhitelistInputs : removeFromWhitelist(d)
    \/ \E u \in Urls : ShouldBlockUrlCall(u)
    \/ \E b \in BOOLEAN : AdBlockChanged(b)
    \/ BlockAdsTimer

SpecAdb == Init /\ [][AdbNext]_vars

\* SpecSettings: the privacy mode and the settings of the component architecture
SettingsNext ==
    \/ togglePrivacyMode
    \/ enablePrivacyMode
    \/ disablePrivacyMode
    \/ \E b \in BOOLEAN : PrivacyModeChanged(b)
    \/ \E b \in BOOLEAN : AdBlockChanged(b)
    \/ \E b \in BOOLEAN : SecurityChanged(b)
    \/ \E e \in SearchEngines : SearchEngineChanged(e)
    \/ \E s \in PrivacySettingsInputs : updatePrivacySettings(s)
    \/ BlockAdsTimer

SpecSettings == Init /\ [][SettingsNext]_vars

\* SpecNav: navigation through the before-navigate gate
NavNext ==
    \/ \E u \in NavInputs : navigate(u)
    \/ LoadUrlTimer
    \/ \E b \in BOOLEAN : SecurityChanged(b)
    \/ BlockAdsTimer

SpecNav == Init /\ [][NavNext]_vars

\* SpecDom: the AdBlocker and the page in siteFrame
DomNavInputs == {"https://online.example/evil"}

DomNext ==
    \/ \E u \in DomNavInputs : navigate(u)
    \/ LoadUrlTimer
    \/ \E b \in BOOLEAN : AdBlockChanged(b)
    \/ \E b \in BOOLEAN : FrameLoad(b)
    \/ BlockAdsTimer
    \/ \E k \in 1..Len(PageElements) : MutationBatch(k)

SpecDom == Init /\ [][DomNext]_vars

\* SpecLegacy: the persisted logs of the legacy page
LegacyInit ==
    SecInit /\ AdbInit /\ PrivInit /\ UmbraInit /\ LsInit /\ LegInitEarlier /\ ExtInit

LegacyNext ==
    \/ \E t \in SecurityEventTypes : logSecurityEvent(t)
    \/ \E t \in BlockedRequestTypes : logBlockedRequest(t)
    \/ legacyTogglePrivacyMode
    \/ enablePrivateMode
    \/ disablePrivateMode
    \/ clearSecurityLog

SpecLegacy == LegacyInit /\ [][LegacyNext]_vars

\* the dimension test of SecurityManager.isAdElement on an element of size rect
hasAdDimensionsCall ==
    /\ dimAnswer' = [stage |-> "hasAdDimensions", ad |-> hasAdDimensions(rect[1], rect[2])]
    /\ UNCHANGED << secVars, adbVars, privVars, umbraVars, lsVars, legVars, domVars,
                    pmxVars, legDoc, lastIframe, realSession, legSessionData,
                    blockedCounts, rect, urlFacts, tdVars, callVars >>

\* the size test of AdBlocker.blockAdImages on an image of size rect
isAdImageCall ==
    /\ dimAnswer' = [stage |-> "isAdImage", ad |-> isAdImage(rect[1], rect[2])]
    /\ UNCHANGED << secVars, adbVars, privVars, umbraVars, lsVars, legVars, domVars,
                    pmxVars, legDoc, lastIframe, realSession, legSessionData,
                    blockedCounts, rect, urlFacts, tdVars, callVars >>

\* SpecPrivacy: the PrivacyManager's mode changes and automatic purges
PrivacyNavInputs == {"https://online.example/evil", "https://ads.doubleclick.net/pixel"}

PrivacyNext ==
    \/ togglePrivacyMode
    \/ \E s \in PurgeSettingsInputs : updatePrivacySettings(s)
    \/ \E u \in PrivacyNavInputs : navigate(u)
    \/ LoadUrlTimer
    \/ BlockAdsTimer
    \/ \E hidden \in BOOLEAN : handleVisibilityChange(hidden)
    \/ QuarterHourPasses
    \/ handleBeforeUnload

SpecPrivacy == Init /\ [][PrivacyNext]_vars

(***************************************************************************)
(* StorageManager (js/ui/notifications.js): store, retrieve, freeUpSpace.  *)
(* An entry is [timestamp, size, expires]: the time store() wrote it, the   *)
(* space its serialized text takes, the time it expires (0: never).        *)
(***************************************************************************)
StoreKeys == {"tabs", "history", "bookmarks"}
StoreInputs ==
    { [key |-> k, size |-> 1, expires |-> 0] : k \in StoreKeys }
        \cup { [key |-> "tabs", size |-> 3, expires |-> 0],
               [key |-> "bookmarks", size |-> 3, expires |-> 0],
               [key |-> "history", size |-> 1, expires |-> 1] }

RECURSIVE SumSizes(_, _)
SumSizes(store, keys) ==
    IF keys = {} THEN 0
    ELSE LET k == CHOOSE x \in keys : TRUE
         IN store[k].size + SumSizes(store, keys \ {k})

\* localStorage.setItem(fullKey, text) throws QuotaExceededError when the
\* text does not fit beside the other entries
SetItemFits(store, key, entry) ==
    SumSizes(store, DOMAIN store \ {key}) + entry.size <= StoreQuota

SetItem(store, key, entry) ==
    [k \in DOMAIN store \cup {key} |-> IF k = key THEN entry ELSE store[k]]

RemoveKeys(store, keys) == [k \in DOMAIN store \ keys |-> store[k]]

\* StorageManager.isExpired(data)
isExpired(entry, at) == entry.expires # 0 /\ at > entry.expires

\* StorageManager.cleanupExpiredData(): the store without its expired entries
cleanupExpiredData(store, at) ==
    RemoveKeys(store, {k \in DOMAIN store : isExpired(store[k], at)})

\* the keys freeUpSpace removes after the expired ones: the entries sorted by
\* the timestamp store() wrote into them, the first Math.ceil(n * 0.25) taken
OldestQuarter(store) ==
    LET n == Cardinality(DOMAIN store)
        toRemove == (n + 3) \div 4
    IN {k \in DOMAIN store :
           Cardinality({j \in DOMAIN store : store[j].timestamp < store[k].timestamp})
               < toRemove}

\* StorageManager.freeUpSpace(): what is left in localStorage
freeUpSpace(store, at) ==
    LET live == cleanupExpiredData(store, at)
    IN RemoveKeys(live, OldestQuarter(live))

\* StorageManager.store(key, data, options)
store(in) ==
    LET at == smClock + 1
        entry == [timestamp |-> at, size |-> in.size,
                  expires |-> IF in.expires = 0 THEN 0 ELSE at + in.expires]
        first == SetItemFits(smStore, in.key, entry)
        live == cleanupExpiredData(smStore, at)
        swept == freeUpSpace(smStore, at)
        retry == SetItemFits(swept, in.key, entry)
        ok == first \/ retry
        base == IF first THEN smStore ELSE swept
    IN /\ smClock < MaxStoreOps
       /\ smClock' = at
       /\ smStore' = IF ok THEN SetItem(base, in.key, entry) ELSE base
       /\ smCache' = IF first THEN SetItem(smCache, in.key, entry)
                     ELSE IF retry THEN SetItem(<< >>, in.key, entry) ELSE << >>
       /\ smUsed' = IF ok
                    THEN [k \in DOMAIN smUsed \cup {in.key} |->
                             IF k = in.key THEN at ELSE smUsed[k]]
                    ELSE smUsed
       /\ lastStore' =
             [key |-> in.key,
              attempts |-> IF first THEN 1 ELSE 2,
              sweeps |-> IF first THEN 0 ELSE 1,
              evicted |-> IF first THEN {} ELSE DOMAIN live \ DOMAIN swept,
              kept |-> IF first THEN {} ELSE DOMAIN swept,
              usedAt |-> smUsed,
              result |-> IF ok THEN "true" ELSE "false",
              stored |-> ok]
       /\ UNCHANGED lastRetrieve
       /\ UNCHANGED << secVars, adbVars, privVars, umbraVars, lsVars, legVars, domVars,
                       pmxVars, legxVars, urlFacts, tdVars, filterError, logFault, busVars,
                       lateVars >>

\* StorageManager.retrieve(key, defaultValue): answered from the cache when
\* the cache holds an entry under the key that has not expired, or else from
\* localStorage, where an expired entry is removed
retrieve(key) ==
    LET at == smClock + 1
        cached == key \in DOMAIN smCache /\ ~isExpired(smCache[key], at)
        present == key \in DOMAIN smStore
        expired == present /\ isExpired(smStore[key], at)
        served == cached \/ (present /\ ~expired)
    IN /\ smClock < MaxStoreOps
       /\ smClock' = at
       /\ smStore' = IF ~cached /\ expired THEN RemoveKeys(smStore, {key}) ELSE smStore
       /\ smCache' = IF cached THEN smCache
                     ELSE IF present /\ ~expired THEN SetItem(smCache, key, smStore[key])
                     ELSE RemoveKeys(smCache, {key})
       /\ smUsed' = IF served
                    THEN [k \in DOMAIN smUsed \cup {key} |->
                             IF k = key THEN at ELSE smUsed[k]]
                    ELSE smUsed
       /\ lastRetrieve' = [key |-> key, served |-> served, stored |-> present]
       /\ UNCHANGED << lastStore, filterError, logFault, busVars,
                       lateVars >>
       /\ UNCHANGED << secVars, adbVars, privVars, umbraVars, lsVars, legVars, domVars,
                       pmxVars, legxVars, urlFacts, tdVars >>

\* PrivacyManager.clearLocalStorage(): localStorage.clear() removes every
\* item of the origin, those of the StorageManager included; 'umbra-settings'
\* is put back unless clearOnExit is set.  The cache of the StorageManager is
\* not touched.
clearLocalStorage ==
    /\ smStore # << >>
    /\ smStore' = << >>
    /\ lsSettings' = IF privacySettings.clearOnExit THEN << >> ELSE lsSettings
    /\ lsPrivacySettings' = << >>
    /\ lsCustomFilters' = << >>
    /\ lsAdWhitelist' = << >>
    /\ UNCHANGED << writtenWhilePrivate, secVars, adbVars, privVars, umbraVars, legVars,
                    domVars, pmxVars, legxVars, urlFacts, tdVars, callRest >>

\* SpecStorage: the StorageManager under store and retrieve, and the purge of
\* localStorage by the PrivacyManager
StorageNext ==
    \/ \E in \in StoreInputs : store(in)
    \/ \E k \in StoreKeys : retrieve(k)
    \/ clearLocalStorage

SpecStorage == Init /\ [][StorageNext]_vars

(***************************************************************************)
(* Browser (browser core): navigate, goBack, goForward, goHome and         *)
(* clearHistory over history, historyIndex, canGoBack and canGoForward.    *)
(* umbra.navigate and umbra.goHome, which every one of them ends in, are   *)
(* the operations of UmbraBrowser above: they show the page and read no    *)
(* field of the Browser, and the 'navigate' event they raise comes back as *)
(* handleNavigation.                                                       *)
(***************************************************************************)
HistoryLimit == 100

\* String.prototype.trim() for spaces
RECURSIVE trim(_)
trim(s) ==
    IF s = "" THEN s
    ELSE IF SubSeq(s, 1, 1) = " " THEN trim(SubSeq(s, 2, Len(s)))
    ELSE IF SubSeq(s, Len(s), Len(s)) = " " THEN trim(SubSeq(s, 1, Len(s) - 1))
    ELSE s

\* Browser.normalizeUrl(input) under the search engine of the settings
normalizeUrl(input, searchEngine) ==
    IF startsWith(input, "http://") \/ startsWith(input, "https://") THEN input
    ELSE IF includes(input, ".") /\ ~includes(input, " ") /\ indexOf(input, ".") > 1
    THEN "https://" \o input
    ELSE CASE searchEngine = "bing" ->
                 "https://www.bing.com/search?q=" \o encodeURIComponent(input)
           [] searchEngine = "duckduckgo" ->
                 "https://duckduckgo.com/?q=" \o encodeURIComponent(input)
           [] OTHER -> "https://www.google.com/search?q=" \o encodeURIComponent(input)

\* what is typed into the address bar: nothing, spaces, a domain, a query
BrowserInputs == {"", " ", "example.com", "umbra docs "}
StableInput == "example.com"
BrowserUrls ==
    [engine \in SearchEngines |-> [input \in BrowserInputs |->
                                      normalizeUrl(trim(input), engine)]]

\* Browser.addToHistory(url) up to updateNavigationButtons, without the limit
\* on the size of the history
addToHistoryUnlimited(h, url) ==
    LET kept == IF h.index < Len(h.history) - 1 THEN SubSeq(h.history, 1, h.index + 1)
                ELSE h.history
        pushed == Append(kept, url)
    IN [history |-> pushed, index |-> Len(pushed) - 1]

\* Browser.addToHistory(url) up to updateNavigationButtons: the forward
\* entries are dropped, the URL is pushed, and the oldest entry is shifted
\* out when the history has grown over its limit
addToHistory(h, url) ==
    LET kept == IF h.index < Len(h.history) - 1 THEN SubSeq(h.history, 1, h.index + 1)
                ELSE h.history
        pushed == Append(kept, url)
    IN IF Len(pushed) > HistoryLimit
       THEN [history |-> Tail(pushed), index |-> Len(pushed) - 1 - 1]
       ELSE [history |-> pushed, index |-> Len(pushed) - 1]

BrowserFrame ==
    UNCHANGED << secVars, adbVars, privVars, umbraVars, lsVars, legVars, domVars, pmxVars,
                 legxVars, urlFacts, tdVars, filterError, logFault, stoVars, busVars,
                 thmVars, rescanVars, tabVars >>

\* Browser.updateNavigationButtons() after the step
UpdateNavigationButtons ==
    /\ canGoBack' = (historyIndex' > 0)
    /\ canGoForward' = (historyIndex' < Len(history') - 1)

\* Browser.navigate(input)
browserNavigate(input) ==
    LET engine == IF settings.defaultSearchEngine \in SearchEngines
                  THEN settings.defaultSearchEngine ELSE "google"
        url == BrowserUrls[engine][input]
        h == addToHistory([history |-> history, index |-> historyIndex], url)
    IN /\ Len(history) < MaxVariedEntries \/ input \in {"", " ", StableInput}
       /\ IF input = "" \/ trim(input) = ""
          THEN UNCHANGED browserVars
          ELSE /\ history' = h.history
               /\ historyIndex' = h.index
               /\ UpdateNavigationButtons
               /\ currentUrl' = url
       /\ BrowserFrame

\* Browser.goHome()
goHome ==
    /\ currentUrl' = ""
    /\ UNCHANGED << history, historyIndex >>
    /\ UpdateNavigationButtons
    /\ BrowserFrame

\* Browser.goBack()
goBack ==
    IF canGoBack /\ historyIndex > 0
    THEN /\ historyIndex' = historyIndex - 1
         /\ currentUrl' = history[historyIndex' + 1]
         /\ UNCHANGED history
         /\ UpdateNavigationButtons
         /\ BrowserFrame
    ELSE goHome

\* Browser.goForward()
goForward ==
    /\ IF canGoForward /\ historyIndex < Len(history) - 1
       THEN /\ historyIndex' = historyIndex + 1
            /\ currentUrl' = history[historyIndex' + 1]
            /\ UNCHANGED history
            /\ UpdateNavigationButtons
       ELSE UNCHANGED browserVars
    /\ BrowserFrame

\* Browser.handleNavigation(data): the 'navigate' event of a load
handleNavigation(url) ==
    /\ currentUrl' = url
    /\ UNCHANGED << history, historyIndex, canGoBack, canGoForward >>
    /\ BrowserFrame

\* Browser.clearHistory()
clearHistory ==
    /\ history' = << >>
    /\ historyIndex' = 0 - 1
    /\ UpdateNavigationButtons
    /\ UNCHANGED currentUrl
    /\ BrowserFrame

\* SpecHistory: the Browser under its navigation controls
HistoryNext ==
    \/ \E input \in BrowserInputs : browserNavigate(input)
    \/ goBack
    \/ goForward
    \/ goHome
    \/ clearHistory
    \/ \E url \in {history[k] : k \in 1..Len(history)} : handleNavigation(url)

SpecHistory == Init /\ [][HistoryNext]_vars

(***************************************************************************)
(* TabManager (js/ui/notifications.js): createTab, switchToTab, closeTab,  *)
(* closeOtherTabs, closeAllTabs.  t is [tabs, activeTabId, currentTab]:    *)
(* the tab map in insertion order, this.activeTabId and umbra.currentTab.  *)
(* The notifications shown, and umbra.navigate and umbra.goHome at the end *)
(* of switchToTab, are operations of other objects and touch no tab.       *)
(***************************************************************************)
MaxTabs == 20

TabIds(tabList) == {tabList[i].id : i \in 1..Len(tabList)}

\* Array.from(this.tabs.keys()).indexOf(tabId), 1-based; 0 when absent
TabIndex(tabList, tabId) ==
    IF tabId \in TabIds(tabList)
    THEN CHOOSE i \in 1..Len(tabList) : tabList[i].id = tabId
    ELSE 0

\* TabManager.switchToTab(tabId)
SwitchToTab(t, tabId) ==
    IF tabId \notin TabIds(t.tabs) THEN t
    ELSE LET deactivated ==
                 [i \in 1..Len(t.tabs) |->
                     IF t.activeTabId # 0 /\ t.tabs[i].id = t.activeTabId
                     THEN [t.tabs[i] EXCEPT !.isActive = FALSE] ELSE t.tabs[i]]
         IN [tabs |-> [i \in 1..Len(deactivated) |->
                          IF deactivated[i].id = tabId
                          THEN [deactivated[i] EXCEPT !.isActive = TRUE]
                          ELSE deactivated[i]],
             activeTabId |-> tabId,
             currentTab |-> tabId]

\* the tab the closing of the active tab switches to: the next tab, or the
\* previous one when the tab is the last, 0 when there is neither
NewActiveTabId(tabList, tabId) ==
    LET currentIndex == TabIndex(tabList, tabId)
    IN IF currentIndex < Len(tabList) THEN tabList[currentIndex + 1].id
       ELSE IF currentIndex > 1 THEN tabList[currentIndex - 1].id
       ELSE 0

\* closeTab from the removal of the tab element on: the switch away from the
\* active tab, and this.tabs.delete(tabId)
RemoveTab(t, tabId) ==
    LET newActiveTabId == NewActiveTabId(t.tabs, tabId)
        switched == IF t.activeTabId = tabId /\ newActiveTabId # 0
                    THEN SwitchToTab(t, newActiveTabId) ELSE t
    IN [switched EXCEPT !.tabs = SelectSeq(switched.tabs, LAMBDA tab : tab.id # tabId)]

\* TabManager.closeTab(tabId) without the test for the only tab
CloseTabAlways(t, tabId) ==
    IF tabId \notin TabIds(t.tabs) THEN t
    ELSE RemoveTab(t, tabId)

\* TabManager.closeTab(tabId): the only tab is not closed, it becomes a new
\* tab (title and url reset)
CloseTab(t, tabId) ==
    IF tabId \notin TabIds(t.tabs) THEN t
    ELSE IF Len(t.tabs) = 1
    THEN [t EXCEPT !.tabs = [i \in 1..Len(t.tabs) |-> [t.tabs[i] EXCEPT !.url = ""]]]
    ELSE RemoveTab(t, tabId)

\* tabIds.forEach(tabId => this.closeTab(tabId))
RECURSIVE CloseTabs(_, _)
CloseTabs(t, tabIds) ==
    IF tabIds = << >> THEN t
    ELSE CloseTabs(CloseTab(t, Head(tabIds)), Tail(tabIds))

TabKeys(tabList) == [i \in 1..Len(tabList) |-> tabList[i].id]
TabState == [tabs |-> tabs, activeTabId |-> activeTabId, currentTab |-> currentTab]

TabFrame ==
    UNCHANGED << secVars, adbVars, privVars, umbraVars, lsVars, legVars, domVars, pmxVars,
                 legxVars, urlFacts, tdVars, filterError, logFault, stoVars, busVars,
                 thmVars, rescanVars, browserVars >>

SetTabState(t) ==
    /\ tabs' = t.tabs
    /\ activeTabId' = t.activeTabId
    /\ currentTab' = t.currentTab

\* TabManager.createTab(): refused at maxTabs; else the new tab is put into
\* the map and switched to
createTab ==
    /\ nextTabId <= MaxTabIds
    /\ IF Len(tabs) >= MaxTabs
       THEN UNCHANGED tabVars
       ELSE /\ nextTabId' = nextTabId + 1
            /\ SetTabState(SwitchToTab(
                   [TabState EXCEPT !.tabs = Append(tabs, [id |-> nextTabId,
                                                           isActive |-> FALSE, url |-> ""])],
                   nextTabId))
    /\ TabFrame

\* TabManager.switchToTab(tabId)
switchToTab(tabId) ==
    /\ SetTabState(SwitchToTab(TabState, tabId))
    /\ UNCHANGED nextTabId
    /\ TabFrame

\* TabManager.closeTab(tabId)
closeTab(tabId) ==
    /\ SetTabState(CloseTab(TabState, tabId))
    /\ UNCHANGED nextTabId
    /\ TabFrame

\* TabManager.closeOtherTabs(): getActiveTab, then closeTab on every other key
closeOtherTabs ==
    /\ IF activeTabId \notin TabIds(tabs)
       THEN UNCHANGED tabVars
       ELSE /\ SetTabState(CloseTabs(TabState,
                                     SelectSeq(TabKeys(tabs), LAMBDA id : id # activeTabId)))
            /\ UNCHANGED nextTabId
    /\ TabFrame

\* TabManager.closeAllTabs(): closeTab on every key
closeAllTabs ==
    /\ SetTabState(CloseTabs(TabState, TabKeys(tabs)))
    /\ UNCHANGED nextTabId
    /\ TabFrame

\* the tabs a click or a shortcut names: the first, the last, and one that is
\* not there; the last tab is closed only while there are at most two tabs
TabTargets == {tabs[1].id, tabs[Len(tabs)].id, nextTabId}
CloseTargets ==
    {tabs[1].id, nextTabId} \cup (IF Len(tabs) <= 2 THEN {tabs[Len(tabs)].id} ELSE {})

\* SpecTabs: the TabManager under its operations
TabsNext ==
    \/ createTab
    \/ \E tabId \in TabTargets : switchToTab(tabId)
    \/ \E tabId \in CloseTargets : closeTab(tabId)
    \/ closeOtherTabs
    \/ closeAllTabs

SpecTabs == Init /\ [][TabsNext]_vars

(***************************************************************************)
(* UmbraBrowser (js/core/umbra.js): the event system on / off / emit.      *)
(* A callback is [id, throws]: which function it is, and whether it throws  *)
(* when it is called.                                                      *)
(***************************************************************************)
CallbackInputs ==
    { [id |-> "privacy", throws |-> FALSE], [id |-> "security", throws |-> TRUE],
      [id |-> "adblock", throws |-> FALSE] }

\* the course of the loop of emit from callback i on.  The variant Uncaught
\* has no try/catch around the call: the first error ends the loop and
\* reaches the emitter.
RECURSIVE EmitFromUncaught(_, _, _)
EmitFromUncaught(listeners, i, r) ==
    IF i > Len(listeners) THEN r
    ELSE LET cb == listeners[i]
             r1 == [r EXCEPT !.called = Append(@, cb.id)]
         IN IF cb.throws THEN [r1 EXCEPT !.error = "Error"]
            ELSE EmitFromUncaught(listeners, i + 1, r1)

emitUncaught(listeners) ==
    EmitFromUncaught(listeners, 1, [called |-> << >>, logged |-> << >>, error |-> ""])

\* listeners.forEach(callback => { try { callback(data) } catch (error) {
\* console.error(...) } })
RECURSIVE EmitFrom(_, _, _)
EmitFrom(listeners, i, r) ==
    IF i > Len(listeners) THEN r
    ELSE LET cb == listeners[i]
             r1 == [r EXCEPT !.called = Append(@, cb.id)]
             r2 == IF cb.throws THEN [r1 EXCEPT !.logged = Append(@, cb.id)] ELSE r1
         IN EmitFrom(listeners, i + 1, r2)

emitListeners(listeners) ==
    EmitFrom(listeners, 1, [called |-> << >>, logged |-> << >>, error |-> ""])

BusFrame ==
    UNCHANGED << secVars, adbVars, privVars, umbraVars, lsVars, legVars, domVars, pmxVars,
                 legxVars, urlFacts, tdVars, filterError, logFault, stoVars, lateVars >>

\* UmbraBrowser.on(event, callback)
on(event, callback) ==
    /\ Len(eventListeners[event]) < MaxListeners
    /\ eventListeners' = [eventListeners EXCEPT ![event] = Append(@, callback)]
    /\ UNCHANGED lastEmit
    /\ BusFrame

\* UmbraBrowser.off(event, callback): indexOf, then splice(index, 1)
off(event, callback) ==
    LET listeners == eventListeners[event]
        found == {i \in 1..Len(listeners) : listeners[i] = callback}
        index == CHOOSE i \in found : \A j \in found : i <= j
    IN /\ eventListeners' =
             IF found = {} THEN eventListeners
             ELSE [eventListeners EXCEPT
                      ![event] = SubSeq(listeners, 1, index - 1)
                                    \o SubSeq(listeners, index + 1, Len(listeners))]
       /\ UNCHANGED lastEmit
       /\ BusFrame

\* UmbraBrowser.emit(event, data)
emitEvent(event) ==
    LET r == emitListeners(eventListeners[event])
    IN /\ lastEmit' = [event |-> event, listeners |-> eventListeners[event],
                       called |-> r.called, logged |-> r.logged, error |-> r.error]
       /\ UNCHANGED eventListeners
       /\ BusFrame

\* SpecBus: the event system under on, off and emit
ListenerInputs ==
    { << "beforeNavigate", cb >> : cb \in CallbackInputs }
        \cup { << "privacyModeToggle", [id |-> "privacy", throws |-> FALSE] >> }

BusNext ==
    \/ \E l \in ListenerInputs : on(l[1], l[2])
    \/ \E l \in ListenerInputs : off(l[1], l[2])
    \/ \E ev \in BusEvents : emitEvent(ev)

SpecBus == Init /\ [][BusNext]_vars

(***************************************************************************)
(* ThemeManager.setTheme and the calls it leads to, one step per call or   *)
(* return.  A frame is [fn, arg]; a call made with MaxCallStack frames on  *)
(* the stack raises RangeError, which nothing in the chain catches.        *)
(***************************************************************************)
RegisteredThemes == {"light", "dark", "blue", "purple", "high-contrast"}
ThemeInputs == {"dark", "blue", "neon"}

ThemeFrame ==
    UNCHANGED << secVars, adbVars, privVars, legVars, domVars, pmxVars, legxVars, urlFacts,
                 tdVars, filterError, logFault, stoVars, busVars, rescanVars,
                 browserVars, tabVars >>
ThemeUmbraFrame ==
    UNCHANGED << isPrivacyMode, frameSrc, frameHidden, overlay, addressBar, loadTimers,
                 navigations, frameRejected, lsPrivacySettings, lsCustomFilters,
                 lsAdWhitelist >>

\* the call fn(arg) made from the innermost frame
Call(frames, fn, arg) ==
    IF Len(frames) >= MaxCallStack
    THEN [frames |-> << >>, result |-> "RangeError"]
    ELSE [frames |-> Append(frames, [fn |-> fn, arg |-> arg]), result |-> ""]

\* the innermost frame returns
Return(frames) ==
    [frames |-> SubSeq(frames, 1, Len(frames) - 1),
     result |-> IF Len(frames) = 1 THEN "returned" ELSE ""]

\* umbra.themeManager = new ThemeManager(this) is assigned once the
\* constructor, whose init() calls setTheme, has returned
installThemeManager ==
    /\ ~themeInstalled /\ themeFrames = << >>
    /\ themeInstalled' = TRUE
    /\ UNCHANGED << currentTheme, themeFrames, themeResult, settings, lsSettings,
                    writtenWhilePrivate >>
    /\ ThemeUmbraFrame /\ ThemeFrame

\* the settings panel (or the constructor) calls themeManager.setTheme(name)
setThemeCall(name) ==
    /\ themeFrames = << >>
    /\ themeFrames' = << [fn |-> "setTheme", arg |-> name] >>
    /\ themeResult' = ""
    /\ UNCHANGED << themeInstalled, currentTheme, settings, lsSettings, writtenWhilePrivate >>
    /\ ThemeUmbraFrame /\ ThemeFrame

\* the innermost frame runs up to its next call or its return:
\*   setTheme(name): an unknown name returns at once; otherwise currentTheme is
\*       set and saveThemePreference(name) is called
\*   saveThemePreference(name): calls umbra.updateSettings({theme: name})
\*   updateSettings({theme}): merges, saveSettings, calls applyTheme()
\*   applyTheme(): calls themeManager.setTheme(settings.theme) when
\*       umbra.themeManager is set, returns otherwise
themeStep ==
    LET top == themeFrames[Len(themeFrames)]
        merged == Merge(settings, [theme |-> top.arg])
        step ==
            CASE top.fn = "setTheme" ->
                   IF top.arg \in RegisteredThemes
                   THEN Call(themeFrames, "saveThemePreference", top.arg)
                   ELSE Return(themeFrames)
              [] top.fn = "saveThemePreference" ->
                   Call(themeFrames, "updateSettings", top.arg)
              [] top.fn = "updateSettings" -> Call(themeFrames, "applyTheme", "")
              [] top.fn = "applyTheme" ->
                   IF themeInstalled THEN Call(themeFrames, "setTheme", settings.theme)
                   ELSE Return(themeFrames)
    IN /\ themeFrames # << >>
       /\ top.fn # "returning"
       /\ themeFrames' = IF step.result = "" /\ Len(step.frames) < Len(themeFrames)
                         THEN [step.frames EXCEPT ![Len(step.frames)].fn = "returning"]
                         ELSE step.frames
       /\ themeResult' = step.result
       /\ currentTheme' = IF top.fn = "setTheme" /\ top.arg \in RegisteredThemes
                          THEN top.arg ELSE currentTheme
       /\ IF top.fn = "updateSettings"
          THEN /\ settings' = merged
               /\ lsSettings' = << merged >>
               /\ writtenWhilePrivate' =
                     NoteWrite(writtenWhilePrivate, "umbra-settings", isPrivacyMode)
          ELSE UNCHANGED << settings, lsSettings, writtenWhilePrivate >>
       /\ UNCHANGED themeInstalled
       /\ ThemeUmbraFrame /\ ThemeFrame

\* a frame whose call has returned runs to its end and returns: nothing
\* follows the call in saveThemePreference, updateSettings (for a theme) and
\* applyTheme; setTheme emits 'themeChanged'
themeReturn ==
    LET r == Return(themeFrames)
    IN /\ themeFrames # << >>
       /\ themeFrames[Len(themeFrames)].fn = "returning"
       /\ themeFrames' = IF r.frames = << >> THEN r.frames
                         ELSE [r.frames EXCEPT ![Len(r.frames)].fn = "returning"]
       /\ themeResult' = r.result
       /\ UNCHANGED << themeInstalled, currentTheme, settings, lsSettings,
                       writtenWhilePrivate >>
       /\ ThemeUmbraFrame /\ ThemeFrame

\* SpecTheme: the theme of the browser
ThemeNext ==
    \/ installThemeManager
    \/ \E name \in ThemeInputs : setThemeCall(name)
    \/ themeStep
    \/ themeReturn
    \/ \E e \in SearchEngines : SearchEngineChanged(e)

SpecTheme == Init /\ [][ThemeNext]_vars

\* SpecTeardown: the managers destroyed while the page goes on
TeardownNavInputs == {"https://g00gle.com", "https://ads.doubleclick.net/pixel"}

TeardownNext ==
    \/ destroyAdBlocker
    \/ destroySecurityManager
    \/ destroyPrivacyManager
    \/ \E u \in TeardownNavInputs : navigate(u)
    \/ LoadUrlTimer
    \/ BlockAdsTimer
    \/ FrameLoad(TRUE)

SpecTeardown == Init /\ [][TeardownNext]_vars

\* SpecDims: the dimension stage applied to elements of every measured size
DimsInit ==
    /\ SecInit /\ AdbInit /\ PrivInit /\ UmbraInit /\ LsInit /\ LegInit
    /\ DomInit /\ PmxInit /\ LegPageInit /\ DimInitAny /\ urlFacts = UrlFacts /\ TdInit
    /\ CallInit

DimsNext == hasAdDimensionsCall \/ isAdImageCall

SpecDims == DimsInit /\ [][DimsNext]_vars

\* SecurityManager.getSecurityStats(): the three counters of the instance
getSecurityStats ==
    [blockedAds |-> blockedCounts.ad, blockedMalware |-> blockedCounts.malware,
     blockedPhishing |-> blockedCounts.phishing]

\* PrivacyManager.getBlockedRequestsStats(): counted from the persisted log
EntriesOfType(log, type) == Cardinality({i \in 1..Len(log) : log[i].type = type})
getBlockedRequestsStats ==
    [total |-> Len(lsBlockedRequests),
     tracking |-> EntriesOfType(lsBlockedRequests, "tracking"),
     ads |-> EntriesOfType(lsBlockedRequests, "ads"),
     malware |-> EntriesOfType(lsBlockedRequests, "malware")]

\* SpecLegacyScan: the DOM scanning of the legacy page
LegacyScanNext ==
    \/ \E k \in 1..Len(LegacyElements) : scanElement(k)
    \/ legacyTogglePrivacyMode
    \/ clearSecurityLog

SpecLegacyScan == Init /\ [][LegacyScanNext]_vars

\* SpecLegacyBatch: batches of added elements scanned while the persisted
\* security log can fail
BatchInputs == { << 1, 2 >>, << 5, 4 >> }

LegacyBatchNext ==
    \/ \E nodes \in BatchInputs : scanNodes(nodes)
    \/ \E kind \in {"read", "write"} : securityLogFault(kind)
    \/ legacyTogglePrivacyMode

SpecLegacyBatch == Init /\ [][LegacyBatchNext]_vars

\* SpecLegacyRescan: the observer's scans, the periodic scan of the page and
\* the ad blocker switch of the legacy page
RescanInputs == { << 1 >>, << 5 >> }

LegacyRescanNext ==
    \/ \E nodes \in RescanInputs : scanNodes(nodes)
    \/ scanCurrentPage
    \/ toggleAdBlocker
    \/ legacyTogglePrivacyMode

SpecLegacyRescan == Init /\ [][LegacyRescanNext]_vars

\* SpecLegacyFrames: the iframe filtering and the session storage of the
\* legacy page
LegacyFramesNext ==
    \/ \E iframe \in IframeInputs : filterIframe(iframe[1], iframe[2])
    \/ \E key \in SessionKeys : sessionSetItem(key)
    \/ legacyTogglePrivacyMode
    \/ enablePrivateMode
    \/ disablePrivateMode

SpecLegacyFrames == Init /\ [][LegacyFramesNext]_vars

Next == UrlNext \/ AdbNext \/ SettingsNext \/ NavNext \/ DomNext \/ LegacyNext \/ LegacyScanNext
           \/ LegacyFramesNext \/ DimsNext \/ PrivacyNext \/ TeardownNext \/ StorageNext
           \/ LegacyBatchNext \/ BusNext \/ ThemeNext \/ LegacyRescanNext
           \/ HistoryNext \/ TabsNext
Spec == Init /\ [][Next]_vars

(***************************************************************************)
(* Properties.                                                             *)
(***************************************************************************)
\* C1: when SecurityManager.handleBeforeNavigation rejects a URL (checkUrl
\* reports a threat and the handler returns false), navigate blocks the
\* navigation: loadUrl is never invoked for that URL, so the content frame
\* never holds a URL that was rejected.
C1_RejectedNavigationNotLoaded == ~frameRejected

\* C2: no entry recorded while the browser is in Private mode (entered through
\* the browser's privacy toggle) is in the persisted security log or in the
\* persisted blocked-requests log.
C2_NoPrivateEntryPersisted ==
    /\ \A i \in 1..Len(lsSecurityLog) : ~lsSecurityLog[i].private
    /\ \A i \in 1..Len(lsBlockedRequests) : ~lsBlockedRequests[i].private

\* C3: under togglePrivacyMode, updateSettings and updatePrivacySettings,
\* localStorage is never written at a moment at which the mode is Private,
\* the transition into Private included.
C3_NoSettingsWriteWhilePrivate == writtenWhilePrivate = {}

\* C4: whitelist precedence.  For every hostname in the AdBlocker whitelist,
\* after any sequence of addCustomFilter / removeCustomFilter / addToWhitelist,
\* shouldBlockUrl returns false for every URL on that hostname, whatever
\* default or custom filter matches the URL.
C4_WhitelistPrecedence ==
    \A u \in Urls :
        LET f == urlFacts[u]
        IN (f.parses /\ f.hostname \in whitelist)
              => ~shouldBlockUrl(f, whitelist, customFilters)

\* a whitelisted host whose URL a default filter and a custom filter both
\* match, and shouldBlockUrl has answered false for it
C4_Witness ==
    /\ "ads.doubleclick.net" \in whitelist
    /\ \E k \in 1..Len(customFilters) : customFilters[k] = CustomFilter("pixel", "domain")
    /\ lastAdCheck = [url |-> "https://ads.doubleclick.net/pixel", blocked |-> FALSE]

\* C5: for every domain d registered in the threat database (built in, or
\* added with blockDomain(d)), checkUrl("https://" + d + "/anything") returns a
\* verdict that is not Clean and has the category stored for d.
C5_RegisteredDomainClassified ==
    \A d \in DOMAIN threatDatabase :
        LET v == checkUrl(AnythingUrl(d), threatDatabase, securityRules).verdict
        IN v # NoThreat /\ v.type = threatDatabase[d].type

\* the last n entries of a history, in insertion order
LastEntries(entries, n) ==
    SubSeq(entries, IF Len(entries) > n THEN Len(entries) - n + 1 ELSE 1, Len(entries))

\* C6: ring-buffer bound.  The persisted security log never holds more than
\* 1000 entries and the persisted blocked-requests log never more than 100,
\* and each holds exactly the most recent cap persisted insertions, in
\* insertion order (so exactly cap entries after cap + k insertions, k > 0).
C6_RingBufferBound ==
    /\ Len(lsSecurityLog) <= SecurityLogCap
    /\ lsSecurityLog = LastEntries(secHistory, SecurityLogCap)
    /\ Len(lsBlockedRequests) <= BlockedRequestsCap
    /\ lsBlockedRequests = LastEntries(blkHistory, BlockedRequestsCap)

\* both logs have seen more than cap insertions
C6_Witness ==
    /\ Len(secHistory) > SecurityLogCap
    /\ Len(blkHistory) > BlockedRequestsCap

\* C7: classifying a URL twice in a row, with no mutation of the rules or
\* the database in between, yields the same verdict: the verdict of a second
\* checkUrl, run on the state the first one leaves, equals the first.
C7_CheckUrlIdempotent ==
    \A u \in CheckInputs :
        LET f == urlFacts[u]
            first == classify(f, threatDatabase, securityRules)
        IN classify(f, threatDatabase, first.rules).verdict = first.verdict

\* C8: round trip.  A fresh AdBlocker that loads what saveCustomFilters and
\* saveWhitelist persisted has the same whitelist as the original, and its
\* shouldBlockUrl answers as the original's for every URL.
C8_RoundTrip ==
    /\ FreshWhitelist = whitelist
    /\ \A u \in Urls :
          LET f == urlFacts[u]
          IN shouldBlockUrl(f, FreshWhitelist, FreshCustomFilters)
                = shouldBlockUrl(f, whitelist, customFilters)

\* C9: every look-alike hostname h of a legitimate domain is classified as
\* Spoofing by checkUrl("https://" + h) when no earlier stage (database,
\* rules) matches, and https://g00gle.com is such a case.
C9_SpoofVariantsAreSpoofing ==
    \A h \in AllSpoofVariants :
        LET f == urlFacts["https://" \o h]
            v == classify(f, threatDatabase, securityRules).verdict
            earlier == \/ f.hostname \in DOMAIN threatDatabase
                       \/ ScanRules(securityRules, f).hit # 0
        IN /\ ~earlier => v.type = "spoofing"
           /\ (/\ h = "g00gle.com"
               /\ threatDatabase = InitialThreatDatabase
               /\ securityRules = InitialSecurityRules) => v.type = "spoofing"

\* C10: after whitelistDomain(d), and until d is blocked again, checkUrl
\* finds no threat in any URL whose hostname is d.
C10_WhitelistedDomainClean ==
    \A u \in AllUrls :
        LET f == urlFacts[u]
        IN (f.parses /\ f.hostname \in whitelisted)
              => classify(f, threatDatabase, securityRules).verdict = NoThreat

\* C11: for a URL that parses, checkUrl returns the verdict of the earliest
\* matching stage in the order database, rules (insertion order), spoofing,
\* TLD, structure; a database hit leaves the rules untested; and the result
\* is Clean only if no stage matches.
C11_EarliestStageWins ==
    \A u \in AllUrls :
        LET f == urlFacts[u]
            s == StageVerdicts(f, threatDatabase, securityRules)
            m == {i \in 1..5 : s[i] # NoThreat}
            r == classify(f, threatDatabase, securityRules)
        IN f.parses =>
              /\ m # {} => r.verdict = s[CHOOSE i \in m : \A j \in m : i <= j]
              /\ s[1] # NoThreat => r.rules = securityRules
              /\ r.verdict = NoThreat => m = {}

\* a URL that the rule stage and the spoofing stage both match has been
\* classified, and the verdict is the rule's
C11_Witness ==
    /\ lastCheck.url = "https://g00gle.com"
    /\ lastCheck.verdict.type = "malware"
    /\ urlFacts[lastCheck.url].spoofing # ""

\* C12: for every input that new URL rejects, checkUrl returns the 'invalid'
\* verdict of its catch block (it does not throw) and never Clean.
C12_UnparsableIsInvalid ==
    \A u \in AllUrls :
        LET f == urlFacts[u]
            v == classify(f, threatDatabase, securityRules).verdict
        IN ~f.parses => (v = InvalidUrl /\ v # NoThreat)

\* an unparsable input has been classified, and the verdict is 'invalid'
C12_Witness ==
    /\ lastCheck.url = "not a url"
    /\ ~urlFacts[lastCheck.url].parses
    /\ lastCheck.verdict = InvalidUrl

\* C13: every element the ad blocker classifies as an Ad is hidden (hidden
\* styling and a blocked marker) and never detached from the document: no
\* element of the page is in the state "removed".
C13_AdsHiddenNeverDetached ==
    \A k \in 1..Len(PageElements) : frameDoc[k].where # "removed"

\* C20: from the moment AdBlocker.disable() returns until the next enable(),
\* no block is recorded (statistics.totalBlocked stays what it was) and no
\* element gets hidden, whatever navigation events, mutation batches and
\* already-scheduled timers follow.
C20_DisableStopsBlocking ==
    ~adEnabled =>
        /\ atDisable.disabled
        /\ statistics.totalBlocked = atDisable.total
        /\ {k \in 1..Len(PageElements) : frameDoc[k].hidden} \subseteq atDisable.hidden

(***************************************************************************)
(* C14: whenever the legacy scanElement is applied to a script element     *)
(* for which isMaliciousScript holds, the element is removed from the      *)
(* document, whatever else it is classified as (an ad, for instance).      *)
(***************************************************************************)
C14_MaliciousScriptRemoved ==
    [][\A k \in 1..Len(LegacyElements) :
          (scanElement(k) /\ isMaliciousScript(legDoc, k)) =>
              legDoc'[k].where = "removed"]_vars

(***************************************************************************)
(* C15: the dimension stage answers Ad exactly for the elements whose      *)
(* rendered width and height are each within 10px of one of the seven      *)
(* banner sizes: at most 10px off on both axes is an Ad, more than 10px    *)
(* off on either axis from every size is not.                              *)
(***************************************************************************)
C15_WithinTenPixelsIsAd ==
    dimAnswer # << >> =>
        dimAnswer.ad = (\E size \in CommonAdSizes :
                           /\ Abs(rect[1] - size[1]) <= 10
                           /\ Abs(rect[2] - size[2]) <= 10)

(***************************************************************************)
(* C16: with the HTTPS upgrade active, an iframe whose src starts with     *)
(* http:// has its src rewritten to https:// before filterIframe does      *)
(* anything else to it (tracking check and blocking, sandboxing).          *)
(***************************************************************************)
C16_UpgradeComesFirst ==
    (HttpsUpgrade /\ startsWith(lastIframe.orig, "http://")) =>
        /\ lastIframe.steps # << >>
        /\ lastIframe.steps[1] = "upgrade"
        /\ startsWith(lastIframe.src, "https://")

(***************************************************************************)
(* C17: enablePrivacyMode() ends in Private and does, in this order:       *)
(* (a) discard sessionData and blockedTrackers, (b) clear session storage, *)
(* (c) clear localStorage, only under the clear-on-exit setting, (d)       *)
(* install the tracking observer, (e) emit the state-changed event.        *)
(***************************************************************************)
C17_EnableOrder ==
    pmTrace[1] = "enable" =>
        /\ pmIsPrivacyMode
        /\ SelectSeq(pmTrace, LAMBDA step : step \in {"discard", "sessionStorage",
                                                       "localStorage", "observer", "emit"})
              \in { << "discard", "sessionStorage", "observer", "emit" >>,
                    << "discard", "sessionStorage", "localStorage", "observer", "emit" >> }

(***************************************************************************)
(* C18: in Private mode each automatic purge trigger (the page becoming    *)
(* hidden, the interval timer, page teardown) leaves sessionData and       *)
(* blockedTrackers empty; teardown purges in either mode, and the hidden   *)
(* and interval triggers change nothing in Normal mode.                    *)
(***************************************************************************)
C18_PurgeTriggersEmpty ==
    [][ /\ (handleVisibilityChange(TRUE) \/ QuarterHourPasses) =>
              IF pmIsPrivacyMode
              THEN (clock' % IntervalPeriod = 0 \/ clock' = clock) =>
                       (sessionData' = << >> /\ blockedTrackers' = {})
              ELSE UNCHANGED << sessionData, blockedTrackers >>
        /\ handleBeforeUnload => (sessionData' = << >> /\ blockedTrackers' = {}) ]_vars

(***************************************************************************)
(* C19: with the overrides of monitorSessionStorage in effect, the legacy  *)
(* enablePrivateMode() leaves the real session storage empty.              *)
(***************************************************************************)
C19_EnableClearsRealSession ==
    [][enablePrivateMode => realSession' = {}]_vars

(***************************************************************************)
(* C21: the explicit disable action of the ad blocker restores every       *)
(* element the ad blocker had hidden: when it completes, no element of the *)
(* page is hidden and none carries the blocked marker.                     *)
(***************************************************************************)
C21_DisableRestoresHidden ==
    [][AdBlockChanged(FALSE) =>
          \A k \in 1..Len(PageElements) : ~frameDoc'[k].hidden /\ ~frameDoc'[k].marker]_vars

(***************************************************************************)
(* C22: a destroyed manager issues no further classification: after        *)
(* destroy() of the AdBlocker, the SecurityManager or the PrivacyManager,  *)
(* no navigation event, timer or DOM mutation makes that manager block,    *)
(* record or purge anything.                                               *)
(***************************************************************************)
C22_DestroyedManagerIsSilent ==
    [][ /\ (destroyed.ad > 0 /\ destroyed'.ad = destroyed.ad) =>
              UNCHANGED << blockedAds, statistics >>
        /\ (destroyed.sm > 0 /\ destroyed'.sm = destroyed.sm) =>
              UNCHANGED << blockedSites, scanResults >>
        /\ (destroyed.pm > 0 /\ destroyed'.pm = destroyed.pm) =>
              /\ blockedTrackers' = blockedTrackers
              /\ DOMAIN sessionData \subseteq DOMAIN sessionData' ]_vars

(***************************************************************************)
(* C23: teardown is idempotent: destroy() called on a manager that was     *)
(* already destroyed raises no error and leaves the state as the first     *)
(* call left it.                                                           *)
(***************************************************************************)
C23_DestroyTwice ==
    [][ \A c \in Managers :
           (destroyed[c] > 0 /\ destroyed'[c] > destroyed[c]) =>
               /\ destroyError' = ""
               /\ UNCHANGED << secVars, adbVars, privVars, umbraVars, lsVars, legVars,
                               domVars, pmxVars, legxVars, filterListsLoaded,
                               adObserving >> ]_vars

\* C24: addCustomFilter called with a pattern that does not compile as a
\* regular expression raises an error in the call itself and registers
\* nothing: the custom filter list in memory and the custom filters persisted
\* in localStorage are exactly what they were before the call.
C24_BadPatternRejected ==
    [][\A p \in FilterInputs \cup BadFilterInputs :
          (~Compiles(p[1]) /\ addCustomFilter(p[1], p[2])) =>
              /\ filterError' # ""
              /\ UNCHANGED << customFilters, lsCustomFilters >>]_vars

\* a pattern was rejected while one filter was registered and saved
C24_Witness ==
    /\ filterError = "SyntaxError"
    /\ Len(customFilters) = 1
    /\ lsCustomFilters = << StringifyFilters(customFilters) >>

\* C25: when the write of StorageManager.store fails with QuotaExceededError,
\* store runs one eviction sweep that removes the least recently used entries
\* (no evicted entry was stored or retrieved later than an entry the sweep
\* kept), retries the write exactly once, and, when the retry fails too, makes
\* no further attempt and reports the failure to its caller.
C25_QuotaSweepAndRetry ==
    lastStore.sweeps > 0 =>
        /\ lastStore.sweeps = 1
        /\ lastStore.attempts = 2
        /\ \A ev \in lastStore.evicted : \A k \in lastStore.kept :
              lastStore.usedAt[ev] <= lastStore.usedAt[k]
        /\ ~lastStore.stored => lastStore.result = "false"

\* C26: a failure of the security log does not stop the blocking.  When
\* logSecurityEvent throws while a batch of added elements is scanned, the
\* element being recorded is mitigated and every other element of the batch
\* is classified and mitigated as well: the document after the batch is the
\* document the same batch leaves when the log works.
C26_LogFailureDoesNotStopBlocking ==
    [][\A nodes \in BatchInputs :
          (scanNodes(nodes) /\ LogThrows) =>
              legDoc' = ScanNodes([doc |-> legDoc, events |-> << >>, thrown |-> FALSE],
                                  nodes, FALSE, adBlockEnabled).doc]_vars

\* C27: the statistics are those of the logs as they are now.  Each count of
\* getSecurityStats equals the number of entries of its category held in the
\* persisted security log and the counts add up to the size of that log; each
\* count of getBlockedRequestsStats equals the number of entries of its
\* category held in the blocked-requests log and its total is the log's size.
C27_StatsReflectLog ==
    /\ getSecurityStats.blockedAds = EntriesOfType(lsSecurityLog, "ad")
    /\ getSecurityStats.blockedMalware = EntriesOfType(lsSecurityLog, "malware")
    /\ getSecurityStats.blockedPhishing = EntriesOfType(lsSecurityLog, "phishing")
    /\ getSecurityStats.blockedAds + getSecurityStats.blockedMalware
          + getSecurityStats.blockedPhishing = Len(lsSecurityLog)
    /\ getBlockedRequestsStats.total = Len(lsBlockedRequests)
    /\ \A type \in {"tracking", "ads", "malware"} :
          getBlockedRequestsStats[type] = EntriesOfType(lsBlockedRequests, type)

\* C28: emit(event, data) calls every callback registered for the event, in
\* the order of registration, also when an earlier callback throws, and no
\* error of a callback reaches the emitter.
C28_EmitReachesEveryListener ==
    /\ lastEmit.called = [i \in 1..Len(lastEmit.listeners) |-> lastEmit.listeners[i].id]
    /\ lastEmit.error = ""

\* an emit over three callbacks of which the first one threw
C28_Witness ==
    /\ Len(lastEmit.listeners) = 3
    /\ lastEmit.listeners[1].throws
    /\ lastEmit.logged # << >>
    /\ lastEmit.called[3] = "adblock"

\* C29: checkDomainSpoofing reports a hostname as spoofing of the legitimate
\* domain L only when the hostname is a variant of L and not L itself: a
\* look-alike substitution, a hyphen in place of the dot, or a swapped TLD.
\* No domain of the legitimate list and no hostname unrelated to the list is
\* classified as Spoofing.
C29_OnlyVariantsAreSpoofing ==
    \A u \in AllUrls :
        LET f == urlFacts[u]
            legit == checkDomainSpoofing(f.hostname)
            listed == \E k \in 1..Len(LegitimateDomains) : LegitimateDomains[k] = f.hostname
        IN f.parses =>
              /\ legit # "" => f.hostname \in SpoofVariants(legit)
              /\ listed => legit = ""

\* C30: checkUrl answers 'invalid URL' only for inputs that new URL rejects.
\* Every URL that parses, percent-escapes in it or not, whatever rules are
\* registered, gets the verdict of the classification stages and never the
\* 'invalid' one.
C30_ParsableNeverInvalid ==
    \A u \in AllUrls :
        LET f == urlFacts[u]
        IN f.parses => classify(f, threatDatabase, securityRules).verdict # InvalidUrl

\* C31: there is one privacy mode.  In every state reached through
\* togglePrivacyMode, enablePrivacyMode, disablePrivacyMode and
\* updateSettings({privacyMode}), umbra.isPrivacyMode, umbra.settings.privacyMode
\* and privacyManager.isPrivacyMode have the same value.
C31_SinglePrivacyMode ==
    /\ isPrivacyMode = settings.privacyMode
    /\ settings.privacyMode = pmIsPrivacyMode

\* C32: with the ThemeManager installed on the browser, setTheme(name)
\* terminates for every registered theme: the chain setTheme ->
\* saveThemePreference -> updateSettings -> applyTheme -> setTheme makes a
\* bounded number of calls and returns; it never exhausts the call stack.
C32_SetThemeTerminates == themeResult # "RangeError"

\* C33: each blocked element is counted once.  Across the scans of the
\* observer, the periodic scan of the page and the scan of an element's
\* children, a step adds to blockedAds exactly the number of elements it hides
\* as ads that were not hidden as ads before: no element is counted twice, and
\* blockedAds stays the number of distinct elements hidden as ads.
C33_EachBlockedElementCountedOnce ==
    [][blockedCounts'.ad - blockedCounts.ad =
          Cardinality({k \in DOMAIN legDoc :
                          /\ legDoc'[k].hidden /\ legDoc'[k].marker = "ad"
                          /\ ~(legDoc[k].hidden /\ legDoc[k].marker = "ad")})]_vars

\* C37: switching the legacy ad blocker off and on again returns the page to
\* its blocked state.  Once the scan of the switching on has run, every ad
\* element that was hidden before the switching off, and that the switching
\* off made visible, is hidden again and carries the blocked marker.
C37_OffThenOnRestoresBlocking ==
    adBlockEnabled =>
        \A k \in restoredAds : legDoc[k].hidden /\ legDoc[k].marker = "ad"

\* C34: the cache of the StorageManager never serves a value that is absent
\* from the persistent store.  A retrieve answers with a stored value only
\* when localStorage holds an entry under the key: after a privacy purge has
\* cleared localStorage, retrieve returns the default for every key stored
\* before the purge.
C34_CacheNeverServesPurgedValue ==
    lastRetrieve.served => lastRetrieve.stored

\* C35: the history of the Browser stays well formed under navigate, goBack,
\* goForward and clearHistory.  It holds at most 100 entries; historyIndex
\* lies between -1 and the last position, and is -1 only when the history is
\* empty; canGoBack says that historyIndex > 0 and canGoForward that
\* historyIndex is before the last position.
C35_HistoryWellFormed ==
    /\ Len(history) <= HistoryLimit
    /\ 0 - 1 <= historyIndex /\ historyIndex <= Len(history) - 1
    /\ (historyIndex = 0 - 1) <=> (history = << >>)
    /\ canGoBack <=> (historyIndex > 0)
    /\ canGoForward <=> (historyIndex < Len(history) - 1)

\* the history is full, and the user has gone back to the middle of it
C35_Witness ==
    /\ Len(history) = HistoryLimit
    /\ historyIndex = HistoryLimit \div 2
    /\ canGoBack /\ canGoForward

\* C36: after createTab, switchToTab, closeTab, closeOtherTabs and
\* closeAllTabs, each taken once it has returned, the TabManager holds
\* between 1 and 20 tabs, activeTabId is the id of a tab in the tab map, and
\* exactly one tab has isActive = true.
C36_TabsWellFormed ==
    /\ 1 <= Len(tabs) /\ Len(tabs) <= MaxTabs
    /\ activeTabId \in TabIds(tabs)
    /\ Cardinality({i \in 1..Len(tabs) : tabs[i].isActive}) = 1

\* the map is full again after tabs were closed, and the active tab is not
\* the one created last
C36_Witness ==
    /\ Len(tabs) = MaxTabs
    /\ nextTabId > MaxTabs + 1
    /\ activeTabId # tabs[Len(tabs)].id

====
